---------------------------- MODULE Spec2Model ----------------------------
(***************************************************************************)
(* A model of hinata-rs: the PN532 frame codec (src/src/pn532.rs), the     *)
(* subscription registry and reply channels (src/src/message.rs), the      *)
(* transport worker io_loop (src/src/builder.rs) and the request           *)
(* orchestration of HinataDevice (src/src/device.rs).                      *)
(*                                                                         *)
(* Bytes are integers 0..255 and all byte arithmetic is taken modulo 256.  *)
(* Sequences are 1-based: the Rust index i is the TLA+ index i+1.          *)
(***************************************************************************)
EXTENDS Integers, Sequences, FiniteSets, TLC

VARIABLES
    overflow_checks, \* build profile: TRUE when integer overflow panics (debug), FALSE when it wraps (release)
    c_pc,            \* codec harness: "new" | "raw" | "encoded" | "decoded" | "idle"
    c_packet,        \* the Pn532Packet handed to to_bytes
    c_wire,          \* the byte sequence handed to from_bytes
    c_mut,           \* offset (0-based) of the byte replaced in c_wire, or -1
    c_res,           \* the Result returned by from_bytes, or NoResult
    tx_alive,        \* HinataDevice.tx: some Sender<InMessage> still exists
    queue,           \* the outbound channel main_to_sub (mpsc::channel(255))
    next_sub,        \* number of the next Subscription::new
    chan,            \* chan[id]: the reply channel of subscription id (mpsc::channel(32))
    rx_alive,        \* rx_alive[id]: the Receiver<OutMessage> of subscription id exists
    subscribes,      \* io_loop: the registry HashMap<u8, Subscription>
    w_pc,            \* io_loop: "drain" | "read" | "send" | "fanout" | "done"
    w_buf,           \* io_loop: buf, 64 bytes
    w_cur,           \* handle_hid_error: the drained subscription being notified, or NoSub
    w_pending,       \* handle_hid_error: the drained subscriptions not yet notified
    submitted,       \* history: number of items ever put in the outbound queue
    processed,       \* history: number of items the worker has dequeued and handled
    frames_read,     \* history: number of reads that returned a frame
    poll_mark,       \* history: the value of submitted at the worker's latest try_recv
    fan_ids,         \* history: the subscriptions registered when the latest fan-out began
    fan_cause,       \* history: "read" | "write" | "none", what began the latest fan-out
    dc_sent,         \* history: dc_sent[id], the calls of send_no_check on subscription id
    hw_out,          \* history: the data of the latest call of connection.write, or <<>>
    r_pc,            \* Pn532Port::request: "idle" | "wait_ack" | "wait_res" | "done"
    r_cmd,           \* Pn532Port::request: pn532_cmd
    r_sub,           \* Pn532Port::request: the subscription whose receiver is rx
    r_got,           \* history: the stripped frames receive_packet has returned to the request
    r_result,        \* Pn532Port::request: what the call returned, or NoReturn
    r_fanned,        \* history: handle_hid_error had run on the device when the request was submitted
    p_got,           \* history: p_got[id], the Response messages taken from the reply queue of id by PolicyRecv
    d_pc,            \* need_dispose harness: "new" | "decided" | "idle"
    d_policy,        \* the UnSubscribePolicy need_dispose is called on
    d_msg,           \* the OutMessage handed to need_dispose
    d_count,         \* the count handed to need_dispose
    d_res,           \* the bool need_dispose returned
    k_pc,            \* card decoder harness: "new" | "parsed" | "idle"
    k_entries,       \* the card-list entries the payload was built from
    k_data,          \* the payload handed to parse_in_list_passive_target
    k_brty,          \* the baud-rate-type handed to parse_in_list_passive_target
    k_res,           \* the Result returned by parse_in_list_passive_target, or NoCards
    g_pc,            \* get_chip_id / get_firmware_commit_hash: position of the call
    g_fn,            \* which of the two is being called: 0xE6 or 0xE5
    g_result,        \* what the call returned, or NoReturn
    firmware_timestamp,    \* HinataDevice.info.firmware_timestamp
    chip_id,               \* HinataDevice.info.chip_id
    firmware_commit_hash,  \* HinataDevice.info.firmware_commit_hash
    hw_scripted,     \* the device: FALSE when it may send any frame at any time, TRUE when it sends what it owes
    hw_owed          \* the device: the frames it owes for the writes it has received, oldest first

codec_vars == <<c_pc, c_packet, c_wire, c_mut, c_res>>

caller_vars == <<tx_alive, queue, next_sub, chan, rx_alive>>

worker_vars == <<subscribes, w_pc, w_buf, w_cur, w_pending>>

history_vars == <<submitted, processed, frames_read, poll_mark, fan_ids, fan_cause, dc_sent, hw_out>>

req_vars == <<r_pc, r_cmd, r_sub, r_got, r_result, r_fanned>>

dispose_vars == <<d_pc, d_policy, d_msg, d_count, d_res>>

card_vars == <<k_pc, k_entries, k_data, k_brty, k_res>>

gate_vars == <<g_pc, g_fn, g_result, firmware_timestamp, chip_id, firmware_commit_hash>>

device_vars == <<hw_scripted, hw_owed>>

vars == <<overflow_checks, codec_vars, caller_vars, worker_vars, history_vars, req_vars, p_got, dispose_vars,
          card_vars, gate_vars, device_vars>>

-----------------------------------------------------------------------------
(* Bounds of the model *)

\* payloads of every length 0..MaxPayloadLen over ByteSamples are enumerated
MaxPayloadLen == 1

\* capacity of the outbound queue in the model (255 in builder.rs:94)
OutCap == 2

\* capacity of a reply queue in the model (32 in message.rs:63)
ReplyCap == 1

\* number of items submitted to the outbound queue in a run
MaxSubmit == 2

\* number of frames the device sends in a run
MaxPolicyLen == 3

MaxFrames == 2

-----------------------------------------------------------------------------
(* src/src/pn532.rs : the frame codec *)

HostToPn532 == 212   \* 0xD4
Pn532ToHost == 213   \* 0xD5

Pn532Direction == {HostToPn532, Pn532ToHost}

GetFirmwareVersion == 2     \* 0x02
InListPassiveTarget == 74   \* 0x4A

\* the discriminants of the closed enum Pn532Command
Pn532Command ==
    {0, 2, 4, 6, 8, 12, 14, 16, 18, 20, 22,          \* Diagnose .. PowerDown
     50, 88, 86, 70, 74, 80, 78, 64, 66, 68, 82, 84, 96, \* RfConfiguration .. InAutoPoll
     140, 146, 134, 142, 148, 136, 144, 138}         \* TgInitAsTarget .. TgGetTargetStatus

Byte == 0..255

wrapping_add(a, b) == (a + b) % 256

\* Option<T> is a sequence of length at most one: None is <<>>, Some(x) is <<x>>
None == <<>>

Some(x) == <<x>>

\* num_traits::FromPrimitive::from_u8 of the two enums
Direction_from_u8(b) == IF b \in Pn532Direction THEN Some(b) ELSE None

Command_from_u8(b) == IF b \in Pn532Command THEN Some(b) ELSE None

Pn532Packet(direction, command, payload) ==
    [direction |-> direction, command |-> command, payload |-> payload]

\* the three ways a call of from_bytes can end
Ok(packet) == [tag |-> "Ok", packet |-> packet, err |-> ""]

Err(msg) == [tag |-> "Err", packet |-> Pn532Packet(0, 0, <<>>), err |-> msg]

Panic(msg) == [tag |-> "Panic", packet |-> Pn532Packet(0, 0, <<>>), err |-> msg]

NoResult == [tag |-> "NoResult", packet |-> Pn532Packet(0, 0, <<>>), err |-> ""]

\* the wrapping sum of the bytes at Rust indices lo..hi-1 of data (the for loops
\* over wrapping_add; the sum is split in halves to keep the evaluation shallow)
RECURSIVE checksum_sum(_, _, _)
checksum_sum(data, lo, hi) ==
    IF lo >= hi THEN 0
    ELSE IF hi = lo + 1 THEN wrapping_add(0, data[lo + 1])
    ELSE LET mid == (lo + hi) \div 2
         IN wrapping_add(checksum_sum(data, lo, mid), checksum_sum(data, mid, hi))

\* `payload_len.wrapping_add(lcs) != 0` is the LCS failure
lcs_ok(payload_len, lcs) == wrapping_add(payload_len, lcs) = 0

dcs_ok_Skipped(sum, expected_dcs) == TRUE

\* `checksum_sum.wrapping_add(expected_dcs) != 0` is the DCS failure
dcs_ok(sum, expected_dcs) == wrapping_add(sum, expected_dcs) = 0

u8_sub_Forgotten(a, b, oc) == Some(a)

\* `a - b` on u8: None when the build panics on overflow, the wrapped value otherwise
u8_sub(a, b, oc) ==
    IF a >= b THEN Some(a - b)
    ELSE IF oc THEN None
    ELSE Some((a - b) % 256)

\* the argument of Pn532Command::from_u8 (the match on direction)
WireCommandBase(direction, wire, oc) ==
    IF direction = HostToPn532 THEN Some(wire) ELSE u8_sub(wire, 1, oc)

from_bytes(data, oc) ==
    IF Len(data) < 9 THEN Err("Packet too short")
    ELSE IF data[1] # 0 \/ data[2] # 0 \/ data[3] # 255 THEN Err("Invalid preamble")
    ELSE
      LET payload_len == data[4]
          lcs == data[5]
      IN
      IF ~lcs_ok(payload_len, lcs) THEN Err("Invalid length checksum (LCS)")
      ELSE
        LET direction == Direction_from_u8(data[6]) IN
        IF direction = None THEN Err("Invalid direction")
        ELSE
          LET base == WireCommandBase(direction[1], data[7], oc) IN
          IF base = None THEN Panic("attempt to subtract with overflow")
          ELSE
            LET cmd == Command_from_u8(base[1])
                dcs_index == 5 + payload_len
            IN
            IF cmd = None THEN Err("Invalid command")
            ELSE IF Len(data) <= dcs_index THEN Err("Packet truncated")
            ELSE
              LET sum == checksum_sum(data, 5, dcs_index)
                  expected_dcs == data[dcs_index + 1]
              IN
              IF ~dcs_ok(sum, expected_dcs) THEN Err("Invalid checksum (DCS)")
              ELSE IF dcs_index < 7 THEN Panic("slice index starts at 7 but ends before it")
              ELSE Ok(Pn532Packet(direction[1], cmd[1], SubSeq(data, 8, dcs_index)))

WireCommand_NoOffset(packet) == packet.command

WireCommand_AlwaysOffset(packet) == packet.command + 1

\* the wire command byte: the opcode, plus one from the chip to the host
WireCommand(packet) ==
    IF packet.direction = HostToPn532 THEN packet.command ELSE packet.command + 1

to_bytes(packet) ==
    LET len == (Len(packet.payload) + 2) % 256
        lcs == wrapping_add(255 - len, 1)
        tfi == packet.direction
        cmd == WireCommand(packet)
        dcs_sum == wrapping_add(wrapping_add(tfi, cmd),
                                checksum_sum(packet.payload, 0, Len(packet.payload)))
        dcs == wrapping_add(255 - dcs_sum, 1)
    IN <<0, 0, 255, len, lcs, tfi, cmd>> \o packet.payload \o <<dcs, 0>>

-----------------------------------------------------------------------------
(* src/src/message.rs : messages, disposal policy, Subscription *)

\* UnSubscribePolicy: Count(n), Never, SpecificIsOn(index, byte), SpecificNotOn(index, byte)
Count(n) == [kind |-> "Count", a |-> n, b |-> 0]

Never == [kind |-> "Never", a |-> 0, b |-> 0]

SpecificIsOn(index, byte) == [kind |-> "SpecificIsOn", a |-> index, b |-> byte]

SpecificNotOn(index, byte) == [kind |-> "SpecificNotOn", a |-> index, b |-> byte]

\* OutMessage
Response(data) == [tag |-> "Response", data |-> data]

DeviceDisconnect == [tag |-> "DeviceDisconnect", data |-> <<>>]

need_dispose_Late(policy, msg, count) ==
    IF msg.tag = "Response" /\ policy.kind = "Count" THEN count > policy.a
    ELSE msg.tag # "Response"

need_dispose_IsOnInverted(policy, msg, count) ==
    IF msg.tag = "Response" /\ policy.kind = "SpecificIsOn" THEN
        IF policy.a < Len(msg.data) THEN msg.data[policy.a + 1] # policy.b ELSE TRUE
    ELSE msg.tag # "Response" \/ (policy.kind = "Count" /\ count >= policy.a)

need_dispose_ShortKept(policy, msg, count) ==
    IF msg.tag = "Response" THEN
        CASE policy.kind = "Count" -> count >= policy.a
          [] policy.kind = "Never" -> FALSE
          [] policy.kind = "SpecificIsOn" ->
                IF policy.a < Len(msg.data) THEN msg.data[policy.a + 1] = policy.b ELSE FALSE
          [] policy.kind = "SpecificNotOn" ->
                IF policy.a < Len(msg.data) THEN msg.data[policy.a + 1] # policy.b ELSE FALSE
    ELSE TRUE

need_dispose_NotOnInverted(policy, msg, count) ==
    IF msg.tag = "Response" /\ policy.kind = "SpecificNotOn" THEN
        IF policy.a < Len(msg.data) THEN msg.data[policy.a + 1] = policy.b ELSE TRUE
    ELSE msg.tag # "Response" \/ (policy.kind = "Count" /\ count >= policy.a)

need_dispose_OnlyOnDisconnect(policy, msg, count) == msg.tag # "Response"

\* UnSubscribePolicy::need_dispose
need_dispose(policy, msg, count) ==
    IF msg.tag = "Response" THEN
        CASE policy.kind = "Count" -> count >= policy.a
          [] policy.kind = "Never" -> FALSE
          [] policy.kind = "SpecificIsOn" ->
                IF policy.a < Len(msg.data) THEN msg.data[policy.a + 1] = policy.b ELSE TRUE
          [] policy.kind = "SpecificNotOn" ->
                IF policy.a < Len(msg.data) THEN msg.data[policy.a + 1] # policy.b ELSE TRUE
    ELSE TRUE

\* Subscription { sender, policy, count }: the sender is the sending half of chan[id]
Subscription(id, policy) == [id |-> id, policy |-> policy, count |-> 0]

NoSub == [id |-> 0, policy |-> Never, count |-> 0]

\* InMessage
SendPacket(data) == [kind |-> "SendPacket", data |-> data, cmd |-> 0, sub |-> NoSub]

SendPacketAndSubscribe(data, subscription) ==
    [kind |-> "SendPacketAndSubscribe", data |-> data, cmd |-> 0, sub |-> subscription]

Subscribe(cmd, subscription) ==
    [kind |-> "Subscribe", data |-> <<>>, cmd |-> cmd, sub |-> subscription]

UnSubscribe(cmd) == [kind |-> "UnSubscribe", data |-> <<>>, cmd |-> cmd, sub |-> NoSub]

\* at most one Subscription::new for each submitted item
SubIds == 1..MaxSubmit

\* Sender::blocking_send returns at once when the queue has room or the receiver
\* is gone, and waits otherwise
can_send(id) == Len(chan[id]) < ReplyCap \/ ~rx_alive[id]

sent_Twice(id, msg) ==
    IF rx_alive[id] THEN [chan EXCEPT ![id] = Append(Append(@, msg), msg)] ELSE chan

\* the reply queue after blocking_send(msg) has returned: Err leaves nothing behind
sent(id, msg) == IF rx_alive[id] THEN [chan EXCEPT ![id] = Append(@, msg)] ELSE chan

-----------------------------------------------------------------------------
(* src/src/builder.rs : the transport worker io_loop *)

BufLen == 64

EmptyMap == [k \in {} |-> NoSub]

insert_KeepOld(map, key, value) ==
    IF key \in DOMAIN map THEN map
    ELSE [k \in DOMAIN map \cup {key} |-> IF k = key THEN value ELSE map[k]]

remove_Keep(map, key) == map

remove_All(map, key) == [k \in {} |-> map[k]]

\* HashMap::insert and HashMap::remove
insert(map, key, value) ==
    [k \in DOMAIN map \cup {key} |-> IF k = key THEN value ELSE map[k]]

remove(map, key) == [k \in DOMAIN map \ {key} |-> map[k]]

correlation_key_Plain(data) == data[2]

\* the correlation key of SendPacketAndSubscribe
correlation_key(data) == IF data[2] = 1 THEN 50 ELSE data[2]

\* the registry after the match on an InMessage
registered(map, mes) ==
    CASE mes.kind = "SendPacket" -> map
      [] mes.kind = "SendPacketAndSubscribe" -> insert(map, correlation_key(mes.data), mes.sub)
      [] mes.kind = "Subscribe" -> insert(map, mes.cmd, mes.sub)
      [] mes.kind = "UnSubscribe" -> remove(map, mes.cmd)

has_data_to_write_OnlySendPacket(mes) == mes.kind = "SendPacket"

has_data_to_write_Always(mes) == TRUE

\* data_to_write is Some(data)
has_data_to_write(mes) == mes.kind \in {"SendPacket", "SendPacketAndSubscribe"}

loop_after_BreakAfterItem(recv) == IF recv = "Disconnected" THEN "done" ELSE "read"

loop_after_NoExit(recv) == IF recv = "Ok" THEN "drain" ELSE "read"

\* where the worker goes after message_in.try_recv(): the inner loop again after
\* an item, the read after Empty, out of io_loop after Disconnected
loop_after(recv) ==
    CASE recv = "Ok" -> "drain"
      [] recv = "Empty" -> "read"
      [] recv = "Disconnected" -> "done"

drain_Iter(map) == map

\* subscribes.drain(): the entries leave the map, which is empty from then on
drain(map) == EmptyMap

begin_fanout_Exit(map, cause) ==
    /\ subscribes' = map
    /\ fan_ids' = {map[k].id : k \in DOMAIN map}
    /\ fan_cause' = cause
    /\ w_pc' = "done"
    /\ w_cur' = NoSub
    /\ w_pending' = {}

begin_fanout_Silent(map, cause) ==
    /\ subscribes' = drain(map)
    /\ fan_ids' = {map[k].id : k \in DOMAIN map}
    /\ fan_cause' = cause
    /\ w_pc' = "drain"
    /\ w_cur' = NoSub
    /\ w_pending' = {}

\* handle_hid_error begins: the registry is drained and the first drained
\* subscription (in the map's arbitrary order) is about to be notified
begin_fanout(map, cause) ==
    /\ subscribes' = drain(map)
    /\ fan_ids' = {map[k].id : k \in DOMAIN map}
    /\ fan_cause' = cause
    /\ IF DOMAIN map = {}
         THEN /\ w_pc' = "drain"
              /\ w_cur' = NoSub
              /\ w_pending' = {}
         ELSE /\ w_pc' = "fanout"
              /\ \E k \in DOMAIN map :
                    /\ w_cur' = map[k]
                    /\ w_pending' = {map[j] : j \in DOMAIN map \ {k}}

\* the ACK frame of the chip under the passthrough key 0xE2
AckFrame == <<1, 226, 0, 0, 255, 0, 255, 0>>

\* the payload the chip answers a command with
ReplyPayload(cmd) == IF cmd = GetFirmwareVersion THEN <<50>> ELSE <<0>>

\* what the device owes for a write of data: for a chip-wrapped packet the ACK
\* and then the response to the packet's command, nothing for other writes
answers(data) ==
    IF Len(data) >= 2 /\ data[2] = 226 THEN
        LET decoded == from_bytes(SubSeq(data, 3, Len(data)), FALSE) IN
        IF decoded.tag = "Ok"
          THEN <<AckFrame,
                 <<1, 226>> \o to_bytes(Pn532Packet(Pn532ToHost, decoded.packet.command,
                                                     ReplyPayload(decoded.packet.command)))>>
          ELSE <<>>
    ELSE <<>>

\* the device of the specifications that enumerate its frames
DeviceAny ==
    /\ hw_scripted = FALSE
    /\ hw_owed = <<>>

\* try_recv() returns a message: its match arm, and the hardware write if it has data
PollItem ==
    /\ w_pc = "drain"
    /\ queue # <<>>
    /\ LET mes == Head(queue)
           map == registered(subscribes, mes)
       IN /\ queue' = Tail(queue)
          /\ processed' = processed + 1
          /\ poll_mark' = submitted
          /\ hw_out' = IF has_data_to_write(mes) THEN mes.data ELSE hw_out
          /\ \/ /\ TRUE                                   \* no write, or connection.write is Ok
                /\ subscribes' = map
                /\ w_pc' = loop_after("Ok")
                /\ hw_owed' = IF hw_scripted /\ has_data_to_write(mes)
                                THEN hw_owed \o answers(mes.data) ELSE hw_owed
                /\ UNCHANGED <<w_cur, w_pending, fan_ids, fan_cause>>
             \/ /\ has_data_to_write(mes)               \* connection.write is Err
                /\ begin_fanout(map, "write")
                /\ UNCHANGED hw_owed
    /\ UNCHANGED <<overflow_checks, hw_scripted, card_vars, gate_vars, dispose_vars, p_got, req_vars, codec_vars, tx_alive, next_sub, chan, rx_alive,
                   w_buf, submitted, dc_sent, frames_read>>

\* try_recv() returns Empty: on to the read
PollEmpty ==
    /\ w_pc = "drain"
    /\ queue = <<>>
    /\ tx_alive
    /\ w_pc' = loop_after("Empty")
    /\ poll_mark' = submitted
    /\ UNCHANGED <<overflow_checks, device_vars, card_vars, gate_vars, dispose_vars, p_got, req_vars, codec_vars, caller_vars, subscribes, w_buf, w_cur,
                   w_pending, submitted, processed, fan_ids, fan_cause, dc_sent, frames_read, hw_out>>

\* try_recv() returns Disconnected: io_loop returns, dropping the registry
PollDisconnected ==
    /\ w_pc = "drain"
    /\ queue = <<>>
    /\ ~tx_alive
    /\ w_pc' = loop_after("Disconnected")
    /\ subscribes' = EmptyMap
    /\ poll_mark' = submitted
    /\ UNCHANGED <<overflow_checks, device_vars, card_vars, gate_vars, dispose_vars, p_got, req_vars, codec_vars, caller_vars, w_buf, w_cur, w_pending,
                   submitted, processed, fan_ids, fan_cause, dc_sent, frames_read, hw_out>>

\* read_timeout wrote the bytes of frame at the start of buf
filled(buf, frame) ==
    [i \in 1..BufLen |-> IF i <= Len(frame) THEN frame[i] ELSE buf[i]]

\* connection.read_timeout(&mut buf, 16) returns Ok(0): nothing arrived
ReadNothing ==
    /\ w_pc = "read"
    /\ w_pc' = "drain"
    /\ UNCHANGED <<overflow_checks, device_vars, card_vars, gate_vars, dispose_vars, p_got, req_vars, codec_vars, caller_vars, subscribes, w_buf, w_cur,
                   w_pending, history_vars>>

\* connection.read_timeout returns Ok(len) with len > 0: the worker is in
\* Subscription::send when buf[1] is a registered key
ReadFrame(frame) ==
    /\ w_pc = "read"
    /\ frames_read < MaxFrames
    /\ hw_scripted => (hw_owed # <<>> /\ frame = Head(hw_owed))
    /\ hw_owed' = IF hw_scripted THEN Tail(hw_owed) ELSE hw_owed
    /\ frames_read' = frames_read + 1
    /\ w_buf' = filled(w_buf, frame)
    /\ w_pc' = IF w_buf'[2] \in DOMAIN subscribes THEN "send" ELSE "drain"
    /\ UNCHANGED <<overflow_checks, hw_scripted, card_vars, gate_vars, dispose_vars, p_got, req_vars, codec_vars, caller_vars, subscribes, w_cur,
                   w_pending, submitted, processed, poll_mark, fan_ids, fan_cause,
                   dc_sent, hw_out>>

\* connection.read_timeout returns Err
ReadError ==
    /\ w_pc = "read"
    /\ begin_fanout(subscribes, "read")
    /\ UNCHANGED <<overflow_checks, device_vars, card_vars, gate_vars, dispose_vars, p_got, req_vars, codec_vars, caller_vars, w_buf, submitted,
                   processed, poll_mark, dc_sent, frames_read, hw_out>>

\* Subscription::send returns for the entry under buf[1], which is removed on true
Send ==
    /\ w_pc = "send"
    /\ LET key == w_buf[2]
           entry == subscribes[key]
           msg == Response(SubSeq(w_buf, 2, BufLen))
           count == entry.count + 1
           dispose == need_dispose(entry.policy, msg, count) \/ ~rx_alive[entry.id]
       IN /\ can_send(entry.id)
          /\ chan' = sent(entry.id, msg)
          /\ subscribes' = IF dispose THEN remove(subscribes, key)
                           ELSE [subscribes EXCEPT ![key].count = count]
    /\ w_pc' = "drain"
    /\ UNCHANGED <<overflow_checks, device_vars, card_vars, gate_vars, dispose_vars, p_got, req_vars, codec_vars, tx_alive, queue, next_sub, rx_alive,
                   w_buf, w_cur, w_pending, history_vars>>

\* send_no_check returns for the drained subscription in turn; after the last
\* one handle_hid_error returns and the loop goes on
FanoutSend ==
    /\ w_pc = "fanout"
    /\ can_send(w_cur.id)
    /\ chan' = sent(w_cur.id, DeviceDisconnect)
    /\ dc_sent' = [dc_sent EXCEPT ![w_cur.id] = @ + 1]
    /\ IF w_pending = {}
         THEN /\ w_pc' = "drain"
              /\ w_cur' = NoSub
              /\ w_pending' = {}
         ELSE /\ w_pc' = "fanout"
              /\ \E s \in w_pending :
                    /\ w_cur' = s
                    /\ w_pending' = w_pending \ {s}
    /\ UNCHANGED <<overflow_checks, device_vars, card_vars, gate_vars, dispose_vars, p_got, req_vars, codec_vars, tx_alive, queue, next_sub, rx_alive,
                   subscribes, w_buf, submitted, processed, poll_mark, fan_ids, fan_cause, frames_read, hw_out>>

\* the device after HinataDeviceBuilder::build: the worker at the top of its loop
TransportInit ==
    /\ tx_alive = TRUE
    /\ queue = <<>>
    /\ next_sub = 1
    /\ chan = [id \in SubIds |-> <<>>]
    /\ rx_alive = [id \in SubIds |-> FALSE]
    /\ subscribes = EmptyMap
    /\ w_pc = "drain"
    /\ w_buf = [i \in 1..BufLen |-> 0]
    /\ w_cur = NoSub
    /\ w_pending = {}
    /\ submitted = 0
    /\ processed = 0
    /\ frames_read = 0
    /\ poll_mark = 0
    /\ fan_ids = {}
    /\ fan_cause = "none"
    /\ dc_sent = [id \in SubIds |-> 0]
    /\ hw_out = <<>>

-----------------------------------------------------------------------------
(* The callers of the worker: any task holding the device *)

\* the packets and policies of HinataDevice's requests: the simple request of
\* sub-command 1 and the passthrough request 0xE2
Requests ==
    {[data |-> <<1, 1>>, policy |-> Count(1)],
     [data |-> <<1, 226>>, policy |-> SpecificNotOn(4, 0)]}

\* registry keys named by Subscribe and UnSubscribe
Keys == {226}

\* tx.send(mes).await returns once the outbound queue has room
submit(mes) ==
    /\ tx_alive
    /\ w_pc # "done"
    /\ Len(queue) < OutCap
    /\ submitted < MaxSubmit
    /\ queue' = Append(queue, mes)
    /\ submitted' = submitted + 1

\* Subscription::new(policy): a fresh reply channel with its receiver
new_subscription ==
    /\ next_sub \in SubIds
    /\ next_sub' = next_sub + 1
    /\ rx_alive' = [rx_alive EXCEPT ![next_sub] = TRUE]

SubmitSendPacket ==
    /\ \E c \in {7} : submit(SendPacket(<<1, c>>))
    /\ UNCHANGED <<overflow_checks, device_vars, card_vars, gate_vars, dispose_vars, p_got, req_vars, codec_vars, tx_alive, next_sub, chan, rx_alive,
                   worker_vars, processed, poll_mark, fan_ids, fan_cause, dc_sent, frames_read, hw_out>>

SubmitSendPacketAndSubscribe ==
    /\ new_subscription
    /\ \E r \in Requests :
          submit(SendPacketAndSubscribe(r.data, Subscription(next_sub, r.policy)))
    /\ UNCHANGED <<overflow_checks, device_vars, card_vars, gate_vars, dispose_vars, p_got, req_vars, codec_vars, tx_alive, chan,
                   worker_vars, processed, poll_mark, fan_ids, fan_cause, dc_sent, frames_read, hw_out>>

SubmitSubscribe ==
    /\ new_subscription
    /\ \E k \in Keys : submit(Subscribe(k, Subscription(next_sub, Never)))
    /\ UNCHANGED <<overflow_checks, device_vars, card_vars, gate_vars, dispose_vars, p_got, req_vars, codec_vars, tx_alive, chan,
                   worker_vars, processed, poll_mark, fan_ids, fan_cause, dc_sent, frames_read, hw_out>>

SubmitUnSubscribe ==
    /\ \E k \in Keys : submit(UnSubscribe(k))
    /\ UNCHANGED <<overflow_checks, device_vars, card_vars, gate_vars, dispose_vars, p_got, req_vars, codec_vars, tx_alive, next_sub, chan, rx_alive,
                   worker_vars, processed, poll_mark, fan_ids, fan_cause, dc_sent, frames_read, hw_out>>

\* rx.recv() takes the oldest message of a reply queue
Recv(id) ==
    /\ rx_alive[id]
    /\ chan[id] # <<>>
    /\ chan' = [chan EXCEPT ![id] = Tail(@)]
    /\ UNCHANGED <<overflow_checks, device_vars, card_vars, gate_vars, dispose_vars, p_got, req_vars, codec_vars, tx_alive, queue, next_sub, rx_alive,
                   worker_vars, history_vars>>

\* the receiver of a reply queue is dropped, and with it the messages it holds
DropReceiver(id) ==
    /\ rx_alive[id]
    /\ rx_alive' = [rx_alive EXCEPT ![id] = FALSE]
    /\ chan' = [chan EXCEPT ![id] = <<>>]
    /\ UNCHANGED <<overflow_checks, device_vars, card_vars, gate_vars, dispose_vars, p_got, req_vars, codec_vars, tx_alive, queue, next_sub,
                   worker_vars, history_vars>>

\* the HinataDevice is dropped: the last Sender<InMessage> is gone
DropDevice ==
    /\ tx_alive
    /\ tx_alive' = FALSE
    /\ UNCHANGED <<overflow_checks, device_vars, card_vars, gate_vars, dispose_vars, p_got, req_vars, codec_vars, queue, next_sub, chan, rx_alive,
                   worker_vars, history_vars>>

\* frames the device sends: byte 0 the channel, byte 1 the sub-command (the key)
InFrames ==
    {<<1, 226, 0, 0, 255, 3, 253, 213, 3, 50, 246, 0>>,  \* passthrough response
     <<1, 50, 49>>}                                     \* reply under key 50

Next ==
    \/ PollItem
    \/ PollEmpty
    \/ PollDisconnected
    \/ ReadNothing
    \/ \E frame \in InFrames : ReadFrame(frame)
    \/ ReadError
    \/ Send
    \/ FanoutSend
    \/ SubmitSendPacket
    \/ SubmitSendPacketAndSubscribe
    \/ SubmitSubscribe
    \/ SubmitUnSubscribe
    \/ \E id \in SubIds : Recv(id)
    \/ \E id \in SubIds : DropReceiver(id)
    \/ DropDevice

-----------------------------------------------------------------------------
(* src/src/device.rs : the chip-wrapped request, impl Pn532Port for HinataDevice *)

\* HinataResult<Vec<u8>>: Ok(bytes), or Err of one Error variant; Aborted is the
\* call that panicked instead of returning
OkBytes(data) == [tag |-> "Ok", data |-> data, err |-> ""]

Protocol(msg) == [tag |-> "Protocol", data |-> <<>>, err |-> msg]

Timeout(msg) == [tag |-> "Timeout", data |-> <<>>, err |-> msg]

Disconnected(msg) == [tag |-> "Disconnected", data |-> <<>>, err |-> msg]

Aborted(msg) == [tag |-> "Panic", data |-> <<>>, err |-> msg]

NoReturn == [tag |-> "None", data |-> <<>>, err |-> ""]

standard_ack == <<0, 0, 255, 0, 255, 0>>

ack_ok_Unchecked(ack) == TRUE

\* `&ack[1..7] != &standard_ack` is the ack failure
ack_ok(ack) == SubSeq(ack, 2, 7) = standard_ack

\* some Sender of the reply channel of subscription id exists: the Subscription
\* is in an outbound item, in the registry, or in the hands of handle_hid_error
sender_alive(id) ==
    \/ \E i \in 1..Len(queue) : queue[i].sub.id = id
    \/ \E k \in DOMAIN subscribes : subscribes[k].id = id
    \/ w_cur.id = id
    \/ \E s \in w_pending : s.id = id

receive_packet_Blind(id) ==
    {[tag |-> "Timeout", data |-> <<>>, err |-> "Wait response timeout"],
     [tag |-> "Disconnected", data |-> <<>>, err |-> "Device disconnected"]}

\* the results receive_packet can return in this state: the select! takes the
\* recv branch when a message waits or the channel is closed, and the sleep
\* branch once the deadline has passed
receive_packet(id) ==
    (IF chan[id] # <<>> THEN
        {IF Head(chan[id]).tag = "Response"
           THEN OkBytes(Head(chan[id]).data)
           ELSE Disconnected("Device disconnected")}
     ELSE IF ~sender_alive(id) THEN {Disconnected("Subscribe channel disconnected")}
     ELSE {})
      \cup {Timeout("Wait response timeout")}

\* what follows `res` in request: the decode, the direction and command checks
validate(res, pn532_cmd, oc) ==
    LET decoded == from_bytes(SubSeq(res, 2, Len(res)), oc) IN
    CASE decoded.tag = "Panic" -> Aborted(decoded.err)
      [] decoded.tag = "Err" -> Protocol(decoded.err)
      [] decoded.tag = "Ok" ->
            IF decoded.packet.direction # Pn532ToHost THEN Protocol("Direction mismatch")
            ELSE IF decoded.packet.command # pn532_cmd THEN Protocol("Command mismatch")
            ELSE OkBytes(decoded.packet.payload)

\* request returns (or unwinds): rx is dropped with the messages it holds
returns(result) ==
    /\ r_pc' = "done"
    /\ r_result' = result
    /\ rx_alive' = [rx_alive EXCEPT ![r_sub] = FALSE]
    /\ chan' = [chan EXCEPT ![r_sub] = <<>>]

\* payloads of the requests
ReqPayloads == {<<>>, <<1>>}

\* request up to the first await of receive_packet: Subscription::new, to_bytes
\* and tx.send of [1, 0xE2] ++ packet; &mut self admits one request at a time
RequestBegin(pn532_cmd, payload) ==
    /\ r_pc \in {"idle", "done"}
    /\ r_result.tag # "Panic"
    /\ new_subscription
    /\ LET packet == Pn532Packet(HostToPn532, pn532_cmd, payload)
           send == <<1, 226>> \o to_bytes(packet)
       IN submit(SendPacketAndSubscribe(send, Subscription(next_sub, SpecificNotOn(4, 0))))
    /\ r_pc' = "wait_ack"
    /\ r_cmd' = pn532_cmd
    /\ r_sub' = next_sub
    /\ r_got' = <<>>
    /\ r_result' = NoReturn
    /\ r_fanned' = (fan_cause # "none")
    /\ UNCHANGED <<overflow_checks, device_vars, card_vars, gate_vars, dispose_vars, p_got, codec_vars, tx_alive, chan, worker_vars, processed,
                   frames_read, poll_mark, fan_ids, fan_cause, dc_sent, hw_out>>

\* the first receive_packet returns, and the ack check
RequestAck ==
    /\ r_pc = "wait_ack"
    /\ \E ack \in receive_packet(r_sub) :
          IF ack.tag # "Ok" THEN returns(ack) /\ UNCHANGED r_got
          ELSE /\ r_got' = Append(r_got, ack.data)
               /\ IF ack_ok(ack.data)
                    THEN /\ r_pc' = "wait_res"
                         /\ chan' = [chan EXCEPT ![r_sub] = Tail(@)]
                         /\ UNCHANGED <<r_result, rx_alive>>
                    ELSE returns(Protocol("ack error"))
    /\ UNCHANGED <<overflow_checks, device_vars, card_vars, gate_vars, dispose_vars, p_got, codec_vars, tx_alive, queue, next_sub, worker_vars,
                   history_vars, r_cmd, r_sub, r_fanned>>

\* the second receive_packet returns, and the rest of request
RequestResponse ==
    /\ r_pc = "wait_res"
    /\ \E res \in receive_packet(r_sub) :
          IF res.tag # "Ok" THEN returns(res) /\ UNCHANGED r_got
          ELSE /\ r_got' = Append(r_got, res.data)
               /\ returns(validate(res.data, r_cmd, overflow_checks))
    /\ UNCHANGED <<overflow_checks, device_vars, card_vars, gate_vars, dispose_vars, p_got, codec_vars, tx_alive, queue, next_sub, worker_vars,
                   history_vars, r_cmd, r_sub, r_fanned>>

\* no request has been made
RequestInit ==
    /\ r_pc = "idle"
    /\ r_cmd = GetFirmwareVersion
    /\ r_sub = 0
    /\ r_got = <<>>
    /\ r_result = NoReturn
    /\ r_fanned = FALSE

\* a frame the device sends under the passthrough key 0xE2
PassthroughFrame(bytes) == <<1, 226>> \o bytes

\* what the chip may answer: the ACK, an ACK with a wrong byte (byte 4 of the
\* stripped frame still 0), responses to either command, a frame in the host's
\* direction, a response with a wrong DCS, and TFI D5 with wire command 00
ReqFrames ==
    {AckFrame,
     PassthroughFrame(<<0, 0, 255, 0, 254, 0>>),
     PassthroughFrame(to_bytes(Pn532Packet(Pn532ToHost, GetFirmwareVersion, <<50>>))),
     PassthroughFrame(to_bytes(Pn532Packet(Pn532ToHost, InListPassiveTarget, <<0>>))),
     PassthroughFrame(to_bytes(Pn532Packet(HostToPn532, GetFirmwareVersion, <<>>))),
     PassthroughFrame(<<0, 0, 255, 3, 253, 213, 3, 50, 247, 0>>),
     PassthroughFrame(<<0, 0, 255, 2, 254, 213, 0, 43, 0>>)}

ReqCommands == {GetFirmwareVersion, InListPassiveTarget}

\* one task makes chip-wrapped requests on the device, one after the other
NextReq ==
    \/ PollItem
    \/ PollEmpty
    \/ ReadNothing
    \/ \E frame \in ReqFrames : ReadFrame(frame)
    \/ ReadError
    \/ Send
    \/ FanoutSend
    \/ \E c \in ReqCommands, p \in ReqPayloads : RequestBegin(c, p)
    \/ RequestAck
    \/ RequestResponse

-----------------------------------------------------------------------------
(* src/src/device.rs : the simple request, HinataDevice::request *)

\* sub-commands of the simple requests: 1 (get_firmware_timestamp, key 50) and
\* 0xE6 (get_chip_id)
SimpleCommands == {1, 230}

\* request up to the await of receive_packet: [1, cmd] ++ payload is submitted
\* with a Count(1) subscription
SimpleBegin(cmd, payload) ==
    /\ r_pc \in {"idle", "done"}
    /\ new_subscription
    /\ submit(SendPacketAndSubscribe(<<1, cmd>> \o payload, Subscription(next_sub, Count(1))))
    /\ r_pc' = "wait_simple"
    /\ r_cmd' = cmd
    /\ r_sub' = next_sub
    /\ r_got' = <<>>
    /\ r_result' = NoReturn
    /\ r_fanned' = (fan_cause # "none")
    /\ UNCHANGED <<overflow_checks, device_vars, card_vars, gate_vars, dispose_vars, p_got, codec_vars, tx_alive, chan, worker_vars, processed,
                   frames_read, poll_mark, fan_ids, fan_cause, dc_sent, hw_out>>

\* receive_packet returns and request returns its result as it is
SimpleReturn ==
    /\ r_pc = "wait_simple"
    /\ \E res \in receive_packet(r_sub) :
          /\ returns(res)
          /\ r_got' = IF res.tag = "Ok" THEN Append(r_got, res.data) ELSE r_got
    /\ UNCHANGED <<overflow_checks, device_vars, card_vars, gate_vars, dispose_vars, p_got, codec_vars, tx_alive, queue, next_sub, worker_vars,
                   history_vars, r_cmd, r_sub, r_fanned>>

\* what the device may send: replies under the keys 50 and 0xE6, and a frame
\* under a key nobody asked for
SimpleFrames ==
    {<<1, 50, 49, 55>>,
     <<1, 230, 10, 11, 12, 13>>,
     <<1, 7>>}

\* one task makes simple requests on the device, one after the other
NextSimple ==
    \/ PollItem
    \/ PollEmpty
    \/ ReadNothing
    \/ \E frame \in SimpleFrames : ReadFrame(frame)
    \/ ReadError
    \/ Send
    \/ FanoutSend
    \/ \E c \in SimpleCommands, p \in ReqPayloads : SimpleBegin(c, p)
    \/ SimpleReturn

-----------------------------------------------------------------------------
(* src/src/message.rs : subscriptions of every policy over a run of io_loop *)

\* the key of the subscriptions: the sub-command 0xE6
PolicyKey == 230

\* the policies a subscription is made with
Policies == {Count(1), Count(2), Never, SpecificIsOn(4, 0), SpecificNotOn(4, 0)}

\* a caller registers a subscription of the given policy with its packet
SubscribeWith(policy) ==
    /\ new_subscription
    /\ submit(SendPacketAndSubscribe(<<1, PolicyKey>>, Subscription(next_sub, policy)))
    /\ UNCHANGED <<overflow_checks, device_vars, card_vars, gate_vars, dispose_vars, p_got, req_vars, codec_vars, tx_alive, chan, worker_vars,
                   processed, frames_read, poll_mark, fan_ids, fan_cause, dc_sent, hw_out>>

\* the caller takes the oldest message of its reply queue and keeps its receiver
PolicyRecv(id) ==
    /\ rx_alive[id]
    /\ chan[id] # <<>>
    /\ chan' = [chan EXCEPT ![id] = Tail(@)]
    /\ p_got' = [p_got EXCEPT ![id] = IF Head(chan[id]).tag = "Response" THEN @ + 1 ELSE @]
    /\ UNCHANGED <<overflow_checks, device_vars, card_vars, gate_vars, dispose_vars, req_vars, codec_vars, tx_alive, queue, next_sub, rx_alive,
                   worker_vars, history_vars>>

PolicyInit == p_got = [id \in SubIds |-> 0]

\* frames under the key: byte 4 of the stripped frame is 0, or is not
PolicyFrames ==
    {<<1, PolicyKey, 0, 0, 0, 0>>,
     <<1, PolicyKey, 0, 0, 0, 9>>}

NextPolicy ==
    \/ PollItem
    \/ PollEmpty
    \/ ReadNothing
    \/ \E frame \in PolicyFrames : ReadFrame(frame)
    \/ ReadError
    \/ Send
    \/ FanoutSend
    \/ \E policy \in Policies : SubscribeWith(policy)
    \/ \E id \in SubIds : PolicyRecv(id)

-----------------------------------------------------------------------------
(* need_dispose applied to enumerated policies and messages *)

\* offsets and values of the Specific policies, counts, and payload bytes
DisposeOffsets == 0..MaxPolicyLen

DisposeValues == {0, 9, 255}

DisposeCounts == 0..MaxPolicyLen

DisposePolicies ==
    {Count(n) : n \in DisposeCounts} \cup {Never}
      \cup {SpecificIsOn(i, v) : i \in DisposeOffsets, v \in DisposeValues}
      \cup {SpecificNotOn(i, v) : i \in DisposeOffsets, v \in DisposeValues}

DisposeMessages ==
    {Response(p) : p \in UNION {[1..n -> {0, 9}] : n \in 0..MaxPolicyLen}}
      \cup {DeviceDisconnect}

DisposeInit ==
    /\ d_pc = "new"
    /\ d_policy \in DisposePolicies
    /\ d_msg \in DisposeMessages
    /\ d_count \in DisposeCounts
    /\ d_res = FALSE

\* need_dispose is not exercised
DisposeIdle ==
    /\ d_pc = "idle"
    /\ d_policy = Never
    /\ d_msg = DeviceDisconnect
    /\ d_count = 0
    /\ d_res = FALSE

Dispose ==
    /\ d_pc = "new"
    /\ d_res' = need_dispose(d_policy, d_msg, d_count)
    /\ d_pc' = "decided"
    /\ UNCHANGED <<overflow_checks, device_vars, card_vars, gate_vars, codec_vars, caller_vars, worker_vars, history_vars,
                   req_vars, p_got, d_policy, d_msg, d_count>>

DisposeNext == Dispose

-----------------------------------------------------------------------------
(* The codec applied to enumerated inputs *)

\* the longest payload whose length + 2 still fits the u8 LEN byte
MaxEncodable == 253

ByteSamples == {0, 224, 255}

SeqsUpTo(S, n) == UNION {[1..k -> S] : k \in 0..n}

\* short payloads exhaustively, and the longest one
Payloads ==
    SeqsUpTo(ByteSamples, MaxPayloadLen)
      \cup {[i \in 1..MaxEncodable |-> 255]}

NoPacket == Pn532Packet(0, 0, <<>>)

Vector1 == <<0, 0, 255, 2, 254, 212, 2, 42, 0>>         \* 00 00 FF 02 FE D4 02 2A 00

Vector2 == <<0, 0, 255, 3, 253, 213, 75, 0, 224, 0>>    \* 00 00 FF 03 FD D5 4B 00 E0 00

\* byte sequences handed to from_bytes as they are
RawInputs ==
    {Vector1, Vector2,
     <<>>, <<0, 0, 255, 2, 254, 212, 2, 42>>,           \* shorter than 9
     <<0, 0, 255, 2, 254, 213, 0, 43, 0>>,              \* TFI D5, wire command 00
     <<0, 0, 255, 0, 0, 212, 44, 0, 0>>,                \* LEN 0
     <<0, 0, 255, 1, 255, 212, 44, 0, 0>>,              \* LEN 1, TFI + CMD sum to 0
     <<0, 0, 255, 1, 255, 213, 43, 0, 0>>,
     <<0, 0, 255, 9, 247, 212, 2, 42, 0>>,              \* LEN beyond the buffer
     <<0, 0, 255, 2, 254, 214, 2, 40, 0>>,              \* TFI D6
     <<0, 0, 255, 2, 254, 212, 3, 41, 0>>,              \* unknown command
     <<0, 1, 255, 2, 254, 212, 2, 42, 0>>}              \* bad preamble

\* every frame of 9 bytes with LEN 0 or 1, a matching LCS, either TFI and any
\* wire command; the byte behind the wire command is 0
LowLenInputs ==
    {<<0, 0, 255, len, (256 - len) % 256, tfi, wire, 0, 0>> :
        len \in {0, 1}, tfi \in Pn532Direction, wire \in Byte}

CodecInit ==
    /\ c_mut = -1
    /\ c_res = NoResult
    /\ \/ /\ c_pc = "new"
          /\ c_packet \in {Pn532Packet(d, c, p) : d \in Pn532Direction, c \in Pn532Command, p \in Payloads}
          /\ c_wire = <<>>
       \/ /\ c_pc = "raw"
          /\ c_packet = NoPacket
          /\ c_wire \in RawInputs \cup LowLenInputs

\* the codec is not exercised
CodecIdle ==
    /\ c_pc = "idle"
    /\ c_packet = NoPacket
    /\ c_wire = <<>>
    /\ c_mut = -1
    /\ c_res = NoResult

Encode ==
    /\ c_pc = "new"
    /\ c_wire' = to_bytes(c_packet)
    /\ c_pc' = "encoded"
    /\ UNCHANGED <<overflow_checks, device_vars, card_vars, gate_vars, dispose_vars, p_got, req_vars, c_packet, c_mut, c_res, caller_vars, worker_vars, history_vars>>

\* offsets (0-based) of the two checksum bytes of a frame: LCS and DCS
LcsOffset == 4

DcsOffset(wire) == 5 + wire[4]

\* the replacements tried on an encoded frame: every other value at the two
\* checksum offsets, and on a short frame a sampled value at every other offset
CorruptOffsets(wire, payload) ==
    {LcsOffset, DcsOffset(wire)}
      \cup (IF Len(payload) <= MaxPayloadLen THEN 0..(Len(wire) - 1) ELSE {})

CorruptValues(wire, i) ==
    (IF i \in {LcsOffset, DcsOffset(wire)} THEN Byte ELSE ByteSamples) \ {wire[i + 1]}

Decode ==
    /\ c_pc \in {"raw", "encoded"}
    /\ c_res' = from_bytes(c_wire, overflow_checks)
    /\ c_pc' = "decoded"
    /\ UNCHANGED <<overflow_checks, device_vars, card_vars, gate_vars, dispose_vars, p_got, req_vars, c_packet, c_wire, c_mut, caller_vars, worker_vars, history_vars>>

\* from_bytes applied to an encoded frame with one byte replaced
DecodeCorrupted ==
    /\ c_pc = "encoded"
    /\ \E i \in CorruptOffsets(c_wire, c_packet.payload) :
         \E v \in CorruptValues(c_wire, i) :
           /\ c_wire' = [c_wire EXCEPT ![i + 1] = v]
           /\ c_mut' = i
    /\ c_res' = from_bytes(c_wire', overflow_checks)
    /\ c_pc' = "decoded"
    /\ UNCHANGED <<overflow_checks, device_vars, card_vars, gate_vars, dispose_vars, p_got, req_vars, c_packet, caller_vars, worker_vars, history_vars>>

CodecNext ==
    \/ Encode
    \/ Decode
    \/ DecodeCorrupted

-----------------------------------------------------------------------------
(* src/src/pn532.rs, src/src/card.rs : the card-list decoder *)

\* PassiveTarget::Iso14443a(Iso14443a { uid, sak, aqta })
Iso14443a(uid, sak, aqta) ==
    [type |-> "Iso14443a", uid |-> uid, sak |-> sak, aqta |-> aqta,
     idm |-> <<>>, pmm |-> <<>>, system_codes |-> <<>>]

\* PassiveTarget::Felica(Felica { idm, pmm, system_codes })
Felica(idm, pmm, system_codes) ==
    [type |-> "Felica", uid |-> <<>>, sak |-> 0, aqta |-> 0,
     idm |-> idm, pmm |-> pmm, system_codes |-> system_codes]

\* HinataResult<Vec<PassiveTarget>>: Ok(tags), or Err of the Error variant `kind`
Cards(tags) == [tag |-> "Ok", tags |-> tags, err |-> ""]

CardError(kind, msg) == [tag |-> kind, tags |-> <<>>, err |-> msg]

NoCards == [tag |-> "None", tags |-> <<>>, err |-> ""]

\* a Cursor read past the end of the data: std::io::Error (UnexpectedEof), which
\* `?` converts by #[from] into Error::Io
UnexpectedEof == CardError("Io", "failed to fill whole buffer")

\* Cursor: n more bytes can be read at position pos (0-based)
has_remaining(data, pos, n) == pos + n <= Len(data)

read_u16_LittleEndian(data, pos) == data[pos + 1] + 256 * data[pos + 2]

\* cursor.read_u16::<BigEndian>() at position pos
read_u16(data, pos) == data[pos + 1] * 256 + data[pos + 2]

\* cursor.read_exact(&mut [u8; n]) at position pos
read_exact(data, pos, n) == SubSeq(data, pos + 1, pos + n)

\* what one iteration of the loop yields after Tg: the card and the position of
\* the cursor behind it, or the error returned
Entry(card, pos) == [tag |-> "Ok", card |-> card, pos |-> pos, err |-> ""]

EntryError(kind, msg) == [tag |-> kind, card |-> Iso14443a(<<>>, 0, 0), pos |-> 0, err |-> msg]

EntryEof == EntryError("Io", "failed to fill whole buffer")

\* the arm `0 =>`: ATQA, SAK, uid length, uid
type_a(data, pos) ==
    IF ~has_remaining(data, pos, 2) THEN EntryEof
    ELSE IF ~has_remaining(data, pos + 2, 1) THEN EntryEof
    ELSE IF ~has_remaining(data, pos + 3, 1) THEN EntryEof
    ELSE LET atqa == read_u16(data, pos)
             sak == data[pos + 3]
             len == data[pos + 4]
         IN IF ~has_remaining(data, pos + 4, len) THEN EntryEof
            ELSE Entry(Iso14443a(read_exact(data, pos + 4, len), sak, atqa), pos + 4 + len)

\* sys_cnt = (len - 18) / 2
sys_cnt(len) == (len - 18) \div 2

\* the arm `1 | 2 =>`: length, response code, IDm, PMm, system codes
felica(data, pos) ==
    IF ~has_remaining(data, pos, 1) THEN EntryEof
    ELSE LET len == data[pos + 1] IN
         IF len < 18 THEN EntryError("Other", "Len error")
         ELSE IF ~has_remaining(data, pos + 1, 1) THEN EntryEof
         ELSE IF ~has_remaining(data, pos + 2, 8) THEN EntryEof
         ELSE IF ~has_remaining(data, pos + 10, 8) THEN EntryEof
         ELSE IF ~has_remaining(data, pos + 18, 2 * sys_cnt(len)) THEN EntryEof
         ELSE Entry(Felica(read_exact(data, pos + 2, 8),
                           read_exact(data, pos + 10, 8),
                           [i \in 1..sys_cnt(len) |-> read_u16(data, pos + 18 + 2 * (i - 1))]),
                    pos + 18 + 2 * sys_cnt(len))

\* `for _ in 0..tag_num`: left iterations to go with the cursor at pos
RECURSIVE parse_tags(_, _, _, _, _)
parse_tags(data, brty, pos, left, tags) ==
    IF left = 0 THEN Cards(tags)
    ELSE IF ~has_remaining(data, pos, 1) THEN UnexpectedEof     \* Tg
    ELSE LET e == CASE brty = 0 -> type_a(data, pos + 1)
                    [] brty \in {1, 2} -> felica(data, pos + 1)
                    [] OTHER -> EntryError("Protocol", "Not Supported")
         IN IF e.tag # "Ok" THEN CardError(e.tag, e.err)
            ELSE parse_tags(data, brty, e.pos, left - 1, Append(tags, e.card))

parse_in_list_passive_target_TypeFirst(data, brty) ==
    IF brty \notin {0, 1, 2} THEN CardError("Protocol", "Not Supported")
    ELSE IF ~has_remaining(data, 0, 1) THEN UnexpectedEof
    ELSE parse_tags(data, brty, 1, data[1], <<>>)

parse_in_list_passive_target(data, brty) ==
    IF ~has_remaining(data, 0, 1) THEN UnexpectedEof
    ELSE parse_tags(data, brty, 1, data[1], <<>>)

-----------------------------------------------------------------------------
(* The card-list decoder applied to enumerated payloads *)

\* number of entries of a card list
MaxTags == 2

SampleIdm == <<1, 46, 72, 213, 33, 92, 160, 17>>

SamplePmm == <<0, 241, 0, 0, 0, 1, 67, 0>>

\* an entry of a Type A card list: target number and the card
TypeAEntry(tg, uid, sak, aqta) ==
    [kind |-> "A", tg |-> tg, card |-> Iso14443a(uid, sak, aqta), len |-> 0, code |-> 0, rest |-> <<>>]

\* an entry of a FeliCa card list: target number, total-length byte, response
\* code, and the len - 18 bytes that follow IDm and PMm
FelicaEntry(tg, len, rest) ==
    [kind |-> "F", tg |-> tg,
     card |-> Felica(SampleIdm, SamplePmm,
                     [i \in 1..(Len(rest) \div 2) |-> rest[2 * i - 1] * 256 + rest[2 * i]]),
     len |-> len, code |-> 1, rest |-> rest]

TypeAEntries ==
    {TypeAEntry(1, <<170, 187, 204, 221>>, 8, 4),
     TypeAEntry(2, <<>>, 0, 836),
     TypeAEntry(1, <<4, 18, 52, 86, 120, 154, 188>>, 32, 17408)}

FelicaEntries ==
    {FelicaEntry(1, 18, <<>>),
     FelicaEntry(1, 19, <<136>>),
     FelicaEntry(2, 20, <<18, 252>>),
     FelicaEntry(1, 17, <<>>)}

CardEntries == TypeAEntries \cup FelicaEntries

\* the bytes of an entry as the chip lays them out
EntryBytes(e) ==
    IF e.kind = "A"
      THEN <<e.tg, e.card.aqta \div 256, e.card.aqta % 256, e.card.sak, Len(e.card.uid)>> \o e.card.uid
      ELSE <<e.tg, e.len, e.code>> \o e.card.idm \o e.card.pmm \o e.rest

RECURSIVE Concat(_)
Concat(seqs) == IF seqs = <<>> THEN <<>> ELSE Head(seqs) \o Concat(Tail(seqs))

\* the payload of a card list: the tag count, then the entries
CardPayload(entries) == <<Len(entries)>> \o Concat([i \in 1..Len(entries) |-> EntryBytes(entries[i])])

\* the first example of the card decoder: 01 01 00 04 08 04 AA BB CC DD
CardExample == <<1, 1, 0, 4, 8, 4, 170, 187, 204, 221>>

BaudRateTypes == {0, 1, 2, 3, 255}

\* every list of up to MaxTags entries, whole or cut short at any length
CardInit ==
    /\ k_pc = "new"
    /\ k_entries \in SeqsUpTo(CardEntries, MaxTags)
    /\ k_data \in {SubSeq(CardPayload(k_entries), 1, n) : n \in 0..Len(CardPayload(k_entries))}
    /\ k_brty \in BaudRateTypes
    /\ k_res = NoCards

\* the card decoder is not exercised
CardIdle ==
    /\ k_pc = "idle"
    /\ k_entries = <<>>
    /\ k_data = <<>>
    /\ k_brty = 0
    /\ k_res = NoCards

Parse ==
    /\ k_pc = "new"
    /\ k_res' = parse_in_list_passive_target(k_data, k_brty)
    /\ k_pc' = "parsed"
    /\ UNCHANGED <<overflow_checks, device_vars, codec_vars, caller_vars, worker_vars, history_vars, req_vars, p_got,
                   dispose_vars, gate_vars, k_entries, k_data, k_brty>>

CardNext == Parse

\* HinataDevice after build: Info { firmware_timestamp: 0, firmware_commit_hash: None, chip_id: None, .. }
InfoInit ==
    /\ g_pc = "idle"
    /\ g_fn = 0
    /\ g_result = NoReturn
    /\ firmware_timestamp = 0
    /\ chip_id = None
    /\ firmware_commit_hash = None

-----------------------------------------------------------------------------
(* src/src/device.rs : get_firmware_timestamp, get_chip_id, get_firmware_commit_hash *)

NotSupport(msg) == [tag |-> "NotSupport", data |-> <<>>, err |-> msg]

ParseError(msg) == [tag |-> "Parse", data |-> <<>>, err |-> msg]

\* the firmware timestamp from which the chip id and the commit hash can be asked
MinTimestamp == 2025051301

\* u32::MAX, 4294967295, in decimal digits
U32MaxDigits == <<52, 50, 57, 52, 57, 54, 55, 50, 57, 53>>

\* the sub-commands of get_chip_id and get_firmware_commit_hash
ChipIdCommand == 230

CommitHashCommand == 229

\* the ASCII digits '0'..'9'
Digits == 48..57

RECURSIVE decimal(_)
decimal(bytes) ==
    IF bytes = <<>> THEN 0
    ELSE 10 * decimal(SubSeq(bytes, 1, Len(bytes) - 1)) + (bytes[Len(bytes)] - 48)

\* the number written by the digits fits a u32
fits_u32(num) ==
    \/ Len(num) < 10
    \/ num = U32MaxDigits
    \/ \E i \in 1..10 : num[i] < U32MaxDigits[i] /\ \A j \in 1..(i - 1) : num[j] = U32MaxDigits[j]

\* String::from_utf8(raw[..10].to_vec())? followed by str.parse::<u32>()?: the
\* number, or 0 - 1 for either error (a byte that is no digit after an optional
\* '+', or a number beyond u32)
parse_timestamp(raw) ==
    LET str == SubSeq(raw, 1, 10)
        num == IF str[1] = 43 THEN SubSeq(str, 2, 10) ELSE str
    IN IF (\A i \in 1..Len(num) : num[i] \in Digits) /\ fits_u32(num)
         THEN decimal(num)
         ELSE -1

\* get_four_bytes(&res[1..])
get_four_bytes(res) == SubSeq(res, 2, 5)

supported_Always(timestamp) == TRUE

\* `timestamp < 2025051301` is the refusal
supported(timestamp) == timestamp >= MinTimestamp

\* self.info.chip_id or self.info.firmware_commit_hash, by the function called
cached(fn) == IF fn = ChipIdCommand THEN chip_id ELSE firmware_commit_hash

\* get_chip_id / get_firmware_commit_hash once the timestamp is known: the
\* refusal, the cached value, or on to the request of the value
after_timestamp(fn, timestamp) ==
    IF ~supported(timestamp)
      THEN g_pc' = "done" /\ g_result' = NotSupport("Firmware version too old")
    ELSE IF cached(fn) # None
      THEN g_pc' = "done" /\ g_result' = OkBytes(cached(fn)[1])
    ELSE g_pc' = "value" /\ g_result' = NoReturn

has_timestamp_Never(timestamp) == FALSE

\* `self.info.firmware_timestamp > 0`: the timestamp is cached
has_timestamp(timestamp) == timestamp > 0

\* the call up to its first await: get_firmware_timestamp answers from the cache
\* or goes on to request(1, &[])
GateCall(fn) ==
    /\ g_pc \in {"idle", "done"}
    /\ r_pc = "idle"
    /\ g_fn' = fn
    /\ IF has_timestamp(firmware_timestamp)
         THEN after_timestamp(fn, firmware_timestamp)
         ELSE g_pc' = "timestamp" /\ g_result' = NoReturn
    /\ UNCHANGED <<overflow_checks, device_vars, codec_vars, caller_vars, worker_vars, history_vars, req_vars, p_got,
                   dispose_vars, card_vars, firmware_timestamp, chip_id, firmware_commit_hash>>

\* self.request(1, &[]) up to its await
GateTimestampRequest ==
    /\ g_pc = "timestamp"
    /\ r_pc = "idle"
    /\ SimpleBegin(1, <<>>)

\* self.request(1, &[]) has returned: the rest of get_firmware_timestamp and the
\* gate
GateTimestampReturn ==
    /\ g_pc = "timestamp"
    /\ r_pc = "done"
    /\ r_pc' = "idle"
    /\ IF r_result.tag # "Ok"
         THEN g_pc' = "done" /\ g_result' = r_result /\ UNCHANGED firmware_timestamp
       ELSE IF parse_timestamp(r_result.data) < 0
         THEN g_pc' = "done" /\ g_result' = ParseError("timestamp") /\ UNCHANGED firmware_timestamp
       ELSE /\ firmware_timestamp' = parse_timestamp(r_result.data)
            /\ after_timestamp(g_fn, parse_timestamp(r_result.data))
    /\ UNCHANGED <<overflow_checks, device_vars, codec_vars, caller_vars, worker_vars, history_vars, p_got,
                   dispose_vars, card_vars, r_cmd, r_sub, r_got, r_result, r_fanned,
                   g_fn, chip_id, firmware_commit_hash>>

\* self.request(0xE6, &[]) or self.request(0xE5, &[]) up to its await
GateValueRequest ==
    /\ g_pc = "value"
    /\ r_pc = "idle"
    /\ SimpleBegin(g_fn, <<>>)

\* that request has returned: get_four_bytes and the cache
GateValueReturn ==
    /\ g_pc = "value"
    /\ r_pc = "done"
    /\ r_pc' = "idle"
    /\ g_pc' = "done"
    /\ IF r_result.tag # "Ok"
         THEN g_result' = r_result /\ UNCHANGED <<chip_id, firmware_commit_hash>>
         ELSE /\ g_result' = OkBytes(get_four_bytes(r_result.data))
              /\ IF g_fn = ChipIdCommand
                   THEN chip_id' = Some(get_four_bytes(r_result.data)) /\ UNCHANGED firmware_commit_hash
                   ELSE firmware_commit_hash' = Some(get_four_bytes(r_result.data)) /\ UNCHANGED chip_id
    /\ UNCHANGED <<overflow_checks, device_vars, codec_vars, caller_vars, worker_vars, history_vars, p_got,
                   dispose_vars, card_vars, r_cmd, r_sub, r_got, r_result, r_fanned,
                   g_fn, firmware_timestamp>>

\* what the device may send: the timestamps 2025051301 and 2025051300 and one
\* that is no number under key 50 ('2'), a chip id, a commit hash, and a frame
\* whose byte at offset 1 is 1
GateFrames ==
    {<<1, 50, 48, 50, 53, 48, 53, 49, 51, 48, 49>>,
     <<1, 50, 48, 50, 53, 48, 53, 49, 51, 48, 48>>,
     <<1, 50, 48, 50, 53, 48, 53, 49, 51, 120, 49>>,
     <<1, 230, 10, 11, 12, 13>>,
     <<1, 229, 161, 178, 195, 212>>,
     <<1, 1, 9>>}

\* one task calls get_chip_id and get_firmware_commit_hash, one call after the other
NextGate ==
    \/ PollItem
    \/ PollEmpty
    \/ ReadNothing
    \/ \E frame \in GateFrames : ReadFrame(frame)
    \/ ReadError
    \/ Send
    \/ FanoutSend
    \/ \E fn \in {ChipIdCommand, CommitHashCommand} : GateCall(fn)
    \/ GateTimestampRequest
    \/ GateTimestampReturn
    \/ SimpleReturn
    \/ GateValueRequest
    \/ GateValueReturn

InitCodec ==
    /\ overflow_checks \in BOOLEAN
    /\ CodecInit
    /\ TransportInit
    /\ RequestInit
    /\ PolicyInit
    /\ DisposeIdle
    /\ CardIdle
    /\ InfoInit
    /\ DeviceAny

SpecCodec == InitCodec /\ [][CodecNext]_vars

\* the worker and its callers; the codec is not used and the build profile not read
Init ==
    /\ overflow_checks = FALSE
    /\ CodecIdle
    /\ TransportInit
    /\ RequestInit
    /\ PolicyInit
    /\ DisposeIdle
    /\ CardIdle
    /\ InfoInit
    /\ DeviceAny

Spec == Init /\ [][Next]_vars

\* the worker and one requesting task, in either build profile
InitReq ==
    /\ overflow_checks \in BOOLEAN
    /\ CodecIdle
    /\ TransportInit
    /\ RequestInit
    /\ PolicyInit
    /\ DisposeIdle
    /\ CardIdle
    /\ InfoInit
    /\ DeviceAny

SpecReq == InitReq /\ [][NextReq]_vars

\* the worker and one task making simple requests
SpecSimple == Init /\ [][NextSimple]_vars

\* the worker and callers that subscribe with every policy and keep their receivers
SpecPolicy == Init /\ [][NextPolicy]_vars

\* need_dispose on every enumerated policy, message and count
InitDispose ==
    /\ overflow_checks = FALSE
    /\ CodecIdle
    /\ TransportInit
    /\ RequestInit
    /\ PolicyInit
    /\ DisposeInit
    /\ CardIdle
    /\ InfoInit
    /\ DeviceAny

SpecDispose == InitDispose /\ [][DisposeNext]_vars

\* parse_in_list_passive_target on every enumerated payload and baud-rate-type
InitCard ==
    /\ overflow_checks = FALSE
    /\ CodecIdle
    /\ TransportInit
    /\ RequestInit
    /\ PolicyInit
    /\ DisposeIdle
    /\ CardInit
    /\ InfoInit
    /\ DeviceAny

SpecCard == InitCard /\ [][CardNext]_vars

\* the worker and one task calling the firmware-gated getters
SpecGate == Init /\ [][NextGate]_vars

\* frames of both kinds of request: the ACK, a response with LEN 3, a frame
\* under 0xE2 whose LEN byte is 1, and the replies under the keys 50 and 0xE6
BothFrames ==
    {AckFrame,
     PassthroughFrame(to_bytes(Pn532Packet(Pn532ToHost, GetFirmwareVersion, <<50>>))),
     PassthroughFrame(<<0, 0, 255, 1, 255, 213, 43, 0, 0>>),
     <<1, 50, 49, 55>>,
     <<1, 230, 10, 11, 12, 13>>}

\* one task makes requests of both kinds, chip-wrapped and simple, one after the
\* other, on a device that may send any of their frames
NextBoth ==
    \/ PollItem
    \/ PollEmpty
    \/ ReadNothing
    \/ \E frame \in BothFrames : ReadFrame(frame)
    \/ ReadError
    \/ Send
    \/ FanoutSend
    \/ \E c \in ReqCommands : RequestBegin(c, <<>>)
    \/ RequestAck
    \/ RequestResponse
    \/ \E c \in SimpleCommands : SimpleBegin(c, <<>>)
    \/ SimpleReturn

SpecBoth == Init /\ [][NextBoth]_vars

\* connection.read_timeout returns, with whatever the device did
SimpleRead == ReadNothing \/ (\E frame \in SimpleFrames : ReadFrame(frame)) \/ ReadError

\* the HinataDevice is dropped by its owner: no request borrows it (&mut self),
\* so every request has returned or was dropped, its receiver with it
DeviceDropped ==
    /\ r_pc \in {"idle", "done"}
    /\ DropDevice

\* one task makes simple requests on the device and drops it in the end
NextShutdown ==
    \/ PollItem
    \/ PollEmpty
    \/ PollDisconnected
    \/ ReadNothing
    \/ \E frame \in SimpleFrames : ReadFrame(frame)
    \/ ReadError
    \/ Send
    \/ FanoutSend
    \/ \E c \in SimpleCommands : SimpleBegin(c, <<>>)
    \/ SimpleReturn
    \/ DeviceDropped

\* the worker thread keeps running: try_recv returns, read_timeout returns
\* within its 16 ms, and blocking_send returns once it can
FairShutdown ==
    /\ WF_vars(PollItem)
    /\ WF_vars(PollEmpty)
    /\ WF_vars(PollDisconnected)
    /\ WF_vars(SimpleRead)
    /\ WF_vars(Send)
    /\ WF_vars(FanoutSend)

SpecShutdown == Init /\ [][NextShutdown]_vars /\ FairShutdown

\* connection.read_timeout returns the oldest frame the device owes
DeviceFrame ==
    /\ hw_owed # <<>>
    /\ ReadFrame(Head(hw_owed))

\* one task makes chip-wrapped requests on a device that answers every packet
\* written to it, in the order of the writes, with the ACK and the response
NextDevice ==
    \/ PollItem
    \/ PollEmpty
    \/ ReadNothing
    \/ DeviceFrame
    \/ ReadError
    \/ Send
    \/ FanoutSend
    \/ \E c \in ReqCommands, p \in ReqPayloads : RequestBegin(c, p)
    \/ RequestAck
    \/ RequestResponse

InitDevice ==
    /\ overflow_checks = FALSE
    /\ CodecIdle
    /\ TransportInit
    /\ RequestInit
    /\ PolicyInit
    /\ DisposeIdle
    /\ CardIdle
    /\ InfoInit
    /\ hw_scripted = TRUE
    /\ hw_owed = <<>>

SpecDevice == InitDevice /\ [][NextDevice]_vars

\* the worker thread and the requesting task keep running: try_recv returns,
\* read_timeout returns within its 16 ms, blocking_send returns once it can, and
\* receive_packet returns by its deadline at the latest; nothing makes a caller
\* begin a request or the device send a frame
FairSimple ==
    /\ WF_vars(PollItem)
    /\ WF_vars(PollEmpty)
    /\ WF_vars(SimpleRead)
    /\ WF_vars(Send)
    /\ WF_vars(FanoutSend)
    /\ WF_vars(SimpleReturn)

SpecSimpleFair == Init /\ [][NextSimple]_vars /\ FairSimple

-----------------------------------------------------------------------------
(* Claims about the codec, checked under SpecCodec *)

\* C5 (codec round trip): for every direction, every opcode of Pn532Command and
\* every enumerated payload of length 0..253, from_bytes(to_bytes(packet))
\* succeeds and yields the same direction, command and payload.
C5_RoundTrip ==
    (c_pc = "decoded" /\ c_packet # NoPacket /\ c_mut = -1) =>
        /\ c_wire = to_bytes(c_packet)
        /\ c_res.tag = "Ok"
        /\ c_res.packet.direction = c_packet.direction
        /\ c_res.packet.command = c_packet.command
        /\ c_res.packet.payload = c_packet.payload

\* a chip-to-host packet with the longest payload went through encode and decode
C5_Witness ==
    /\ c_pc = "decoded" /\ c_mut = -1
    /\ c_packet.direction = Pn532ToHost
    /\ c_packet.command = InListPassiveTarget
    /\ Len(c_packet.payload) = MaxEncodable
    /\ c_res.tag = "Ok"

\* C6 (decode is total), as claimed: from_bytes ends with a packet or a format
\* error on every byte sequence and never aborts; a frame that passes the
\* length, preamble and LCS tests with TFI 0xD5 and wire command 0x00 is
\* rejected as an unrecognized command.
C6_DecodeTotal ==
    c_pc = "decoded" =>
        /\ c_res.tag \in {"Ok", "Err"}
        /\ ( /\ Len(c_wire) >= 9
             /\ c_wire[1] = 0 /\ c_wire[2] = 0 /\ c_wire[3] = 255
             /\ lcs_ok(c_wire[4], c_wire[5])
             /\ c_wire[6] = Pn532ToHost /\ c_wire[7] = 0 )
           => c_res = Err("Invalid command")

\* C7 (checksum rejection): for every frame produced by to_bytes, replacing the
\* LCS byte (offset 4) or the DCS byte (offset 5 + LEN) by any different value
\* makes from_bytes return a format error, never a packet.
C7_ChecksumRejection ==
    (c_pc = "decoded" /\ c_packet # NoPacket
       /\ c_mut \in {LcsOffset, 5 + (Len(c_packet.payload) + 2)}) =>
        /\ c_res.tag = "Err"
        /\ c_res.err = (IF c_mut = LcsOffset THEN "Invalid length checksum (LCS)"
                                            ELSE "Invalid checksum (DCS)")

\* the DCS byte of a chip-to-host frame was replaced by DCS + 1 and decode failed
C7_Witness ==
    /\ c_pc = "decoded" /\ c_packet # NoPacket
    /\ c_packet.direction = Pn532ToHost
    /\ c_mut = 5 + (Len(c_packet.payload) + 2)
    /\ c_wire[c_mut + 1] = wrapping_add(to_bytes(c_packet)[c_mut + 1], 1)
    /\ c_res.tag = "Err"

\* C8 (reference vectors), as claimed: 00 00 FF 02 FE D4 02 2A 00 decodes to
\* {HostToDevice, GetFirmwareVersion, payload [2A]} and 00 00 FF 03 FD D5 4B 00 E0 00
\* decodes to {DeviceToHost, InListPassiveTarget, payload [00, E0]}.
C8_VectorsAsClaimed ==
    c_pc = "decoded" =>
        /\ c_wire = Vector1 =>
             c_res = Ok(Pn532Packet(HostToPn532, GetFirmwareVersion, <<42>>))
        /\ c_wire = Vector2 =>
             c_res = Ok(Pn532Packet(Pn532ToHost, InListPassiveTarget, <<0, 224>>))

\* C8 (reference vectors), amended: the two vectors decode to the claimed
\* direction and command, with the payload the LEN byte delimits: the empty
\* payload for vector 1 (2A is its DCS) and [00] for vector 2 (E0 is its DCS).
C8_Vectors ==
    c_pc = "decoded" =>
        /\ c_wire = Vector1 =>
             c_res = Ok(Pn532Packet(HostToPn532, GetFirmwareVersion, <<>>))
        /\ c_wire = Vector2 =>
             c_res = Ok(Pn532Packet(Pn532ToHost, InListPassiveTarget, <<0>>))

\* vector 2 was handed to from_bytes as it is and decoded to a packet
C8_Witness ==
    /\ c_pc = "decoded" /\ c_packet = NoPacket
    /\ c_wire = Vector2
    /\ c_res.tag = "Ok"

-----------------------------------------------------------------------------
(* Claims about the transport worker, checked under Spec *)

\* the worker issues connection.read_timeout in this step
ReadIssued == w_pc = "read" /\ w_pc' # "read"

\* handle_hid_error returns in this step
FanoutEnds == w_pc = "fanout" /\ w_pc' # "fanout"

\* C1 (write before read), as claimed: no hardware read is issued while a
\* submitted outbound item is still waiting in the outbound queue.
C1_NoReadWhileQueued == [][ReadIssued => queue = <<>>]_vars

\* C1 (write before read), amended: a hardware read is issued only after a poll
\* of the outbound queue that found it empty, so every item submitted before the
\* worker's latest poll has been dequeued and handled (registry update, hardware
\* write) before the read; the items queued at the read are those submitted after
\* that poll, and they wait for the next cycle.
C1_ReadAfterEmptyPoll ==
    w_pc = "read" =>
        /\ processed = poll_mark
        /\ Len(queue) = submitted - poll_mark

\* an item was drained and hw_out, the next poll found the queue empty, and
\* another item was submitted before the read
C1_Witness ==
    /\ w_pc = "read"
    /\ processed >= 1
    /\ processed = poll_mark
    /\ queue # <<>>

\* C2 (disconnect fan-out): when a hardware read fails while N subscribers are
\* registered, send_no_check(DeviceDisconnect) is called exactly once on each of
\* the N (and never twice on any subscription in a run), a subscription whose
\* receiver exists gets the message in its reply queue, and the registry is empty
\* when the fan-out ends.
C2_FanoutExactlyOnce ==
    [][ /\ \A id \in SubIds : dc_sent'[id] <= 1
        /\ (w_pc = "fanout" /\ dc_sent'[w_cur.id] = dc_sent[w_cur.id] + 1 /\ rx_alive[w_cur.id])
              => chan'[w_cur.id] = Append(chan[w_cur.id], DeviceDisconnect)
        /\ (FanoutEnds /\ fan_cause = "read")
              => /\ subscribes' = EmptyMap
                 /\ \A id \in fan_ids : dc_sent'[id] = 1 ]_vars

\* a read failed with two subscribers registered and the fan-out has ended
C2_Witness ==
    /\ w_pc = "drain"
    /\ fan_cause = "read"
    /\ Cardinality(fan_ids) = 2
    /\ \A id \in fan_ids : dc_sent[id] = 1
    /\ subscribes = EmptyMap

\* C3 (no wait on a full reply queue), as claimed: whenever the worker delivers
\* an inbound frame to the subscriber of its key, the delivery returns at once,
\* also when that subscriber's reply queue is full.
C3_DeliveryNeverWaits == w_pc = "send" => ENABLED Send

\* C4 (best-effort fan-out), as claimed: during the disconnect fan-out the
\* notification of a subscriber returns at once, also when its reply queue is
\* full or its receiver is gone, so the fan-out goes on to the other subscribers.
C4_FanoutNeverWaits == w_pc = "fanout" => ENABLED FanoutSend

-----------------------------------------------------------------------------
(* Claims about the chip-wrapped request, checked under SpecReq *)

\* the bytes at offsets [1..7) of a stripped frame are not the ACK pattern
NotAck(frame) == SubSeq(frame, 2, 7) # <<0, 0, 255, 0, 255, 0>>

\* a stripped frame that is a well-formed response to command cmd
WellFormedResponse(frame, cmd) ==
    LET decoded == from_bytes(SubSeq(frame, 2, Len(frame)), overflow_checks) IN
    /\ decoded.tag = "Ok"
    /\ decoded.packet.direction = Pn532ToHost
    /\ decoded.packet.command = cmd

\* C9 (ack sequencing): when the first frame a chip-wrapped request receives from
\* its subscriber's reply queue does not carry 00 00 FF 00 FF 00 at offsets [1..7)
\* of the stripped frame, the request returns the protocol error "ack error" and
\* takes no second frame, so a well-formed response that follows is never its
\* result; a request waits for its response only after the ACK pattern. ("The
\* first frame delivered" is the first frame the request receives before its
\* deadline; a request whose deadline passes first ends with the timeout error.)
C9_AckSequencing ==
    /\ (r_got # <<>> /\ NotAck(r_got[1])) =>
          /\ r_pc = "done"
          /\ r_result = Protocol("ack error")
          /\ Len(r_got) = 1
    /\ r_pc = "wait_res" => (Len(r_got) = 1 /\ ~NotAck(r_got[1]))
    /\ r_result.tag = "Ok" => (Len(r_got) = 2 /\ ~NotAck(r_got[1]))

\* the request ended with the ack error on a wrong ACK that left its subscriber
\* registered, and the worker is handing that subscriber the well-formed
\* response to the request's command that came next
C9_Witness ==
    /\ r_pc = "done"
    /\ r_result = Protocol("ack error")
    /\ NotAck(r_got[1])
    /\ r_got[1][5] = 0
    /\ w_pc = "send"
    /\ subscribes[w_buf[2]].id = r_sub
    /\ WellFormedResponse(SubSeq(w_buf, 2, BufLen), r_cmd)

\* C10 (response validation), as claimed: after a correct ACK, a request that
\* received a second frame returns that frame's decoded payload when the frame
\* decodes as a packet from the chip to the host with the request's command, and
\* returns a protocol error in every other case (decode failure, host-to-chip
\* direction, other command).
C10_ResponseValidation ==
    (r_pc = "done" /\ Len(r_got) = 2) =>
        LET decoded == from_bytes(SubSeq(r_got[2], 2, Len(r_got[2])), overflow_checks) IN
        IF WellFormedResponse(r_got[2], r_cmd)
          THEN r_result = OkBytes(decoded.packet.payload)
          ELSE r_result.tag = "Protocol"

-----------------------------------------------------------------------------
(* Claims about the simple request, checked under SpecSimple *)

\* the simple request returns in this step
SimpleReturns == r_pc = "wait_simple" /\ r_pc' = "done"

\* C11 (simple request outcome): a simple request returns exactly one of the
\* timeout error, the disconnected error and Ok; it returns the timeout error
\* when no message has reached its reply queue and the queue is not closed; the
\* disconnected error only when DeviceDisconnect is the first message of the
\* queue or the queue is closed and empty; and Ok only with the stripped frame
\* (key byte first) that is the first message delivered under its correlation
\* key; it takes at most one frame.
C11_SimpleOutcome ==
    [][ SimpleReturns =>
          LET q == chan[r_sub]
              key == correlation_key(<<1, r_cmd>>)
          IN /\ r_result'.tag \in {"Timeout", "Disconnected", "Ok"}
             /\ (q = <<>> /\ sender_alive(r_sub)) => r_result' = Timeout("Wait response timeout")
             /\ r_result'.tag = "Disconnected" =>
                   \/ q # <<>> /\ Head(q) = DeviceDisconnect
                   \/ q = <<>> /\ ~sender_alive(r_sub)
             /\ r_result'.tag = "Ok" =>
                   /\ q # <<>>
                   /\ Head(q) = Response(r_result'.data)
                   /\ r_got' = <<r_result'.data>>
                   /\ Len(r_result'.data) = BufLen - 1
                   /\ r_result'.data[1] = key
             /\ r_result'.tag # "Ok" => r_got' = <<>>
             /\ ~rx_alive'[r_sub] ]_vars

\* the request for sub-command 1 has returned the frame delivered under key 50
C11_Witness ==
    /\ r_pc = "done"
    /\ r_cmd = 1
    /\ r_result.tag = "Ok"
    /\ r_result.data[1] = 50
    /\ r_got = <<r_result.data>>

\* subscription id is in the registry
in_registry(id) == \E k \in DOMAIN subscribes : subscribes[k].id = id

\* subscription id is in an item of the outbound queue
in_queue(id) == \E i \in 1..Len(queue) : queue[i].sub.id = id

\* C12 (a failed request's subscriber is disposed), as claimed: after a request
\* has returned an error, its subscription is eventually neither in the registry
\* nor on its way to it. Checked under SpecSimpleFair.
C12_FailedSubscriberDisposed ==
    \A id \in SubIds :
        (r_pc = "done" /\ r_sub = id /\ r_result.tag # "Ok")
            ~> (~in_registry(id) /\ ~in_queue(id))

\* C13 (disconnected is terminal), as claimed: a request submitted after
\* handle_hid_error has run on the device never completes successfully. Checked
\* under SpecSimple.
C13_DisconnectTerminal ==
    (r_pc = "done" /\ r_fanned) => r_result.tag # "Ok"

-----------------------------------------------------------------------------
(* Claims about the worker loop and the outbound queue, checked under Spec *)

\* io_loop returns in this step
LoopExits == w_pc # "done" /\ w_pc' = "done"

\* C14 (loop termination): io_loop returns only from a poll of the outbound
\* queue that finds it empty with every sender dropped; a step that meets a write
\* or read error goes into the fan-out or back to the drain, never out of the
\* loop; the end of a fan-out puts the worker at the drain again; a loop that has
\* returned stays so.
C14_LoopExit ==
    [][ /\ LoopExits => (w_pc = "drain" /\ queue = <<>> /\ ~tx_alive)
        /\ (fan_cause' # fan_cause \/ fan_ids' # fan_ids) => w_pc' \in {"fanout", "drain"}
        /\ FanoutEnds => w_pc' = "drain"
        /\ w_pc = "done" => w_pc' = "done" ]_vars

\* the loop went through a fan-out for a write error with a subscriber
\* registered, cycled on, and returned after the device was dropped
C14_Witness ==
    /\ w_pc = "done"
    /\ fan_cause = "write"
    /\ fan_ids # {}
    /\ \A id \in fan_ids : dc_sent[id] = 1
    /\ ~tx_alive
    /\ queue = <<>>
    /\ frames_read >= 1

\* tx.send(mes).await completes in this step
SubmitStep == submitted' = submitted + 1

\* message_in.try_recv() returns an item in this step
ConsumeStep == processed' = processed + 1

-----------------------------------------------------------------------------
(* Claims about the disposal policies, checked under SpecPolicy *)

\* the Response messages that have reached a reply queue: those taken from it
\* (got) and those waiting in it (q)
Delivered(got, q) == got + Cardinality({i \in 1..Len(q) : q[i].tag = "Response"})

\* Subscription::send returns in this step
DeliverStep == w_pc = "send" /\ w_pc' = "drain"

\* C16 (Count policy): a subscription with Count(n), n >= 1, whose receiver stays
\* open is in the registry only with fewer than n deliveries made, each delivery
\* adds one frame to its reply queue, the delivery that is its n-th removes it and
\* no earlier one does, and nothing is delivered to it once the worker holds it
\* no more: it gets exactly n frames.
C16_CountPolicy ==
    [][ /\ \A k \in DOMAIN subscribes' :
              LET e == subscribes'[k] IN
              e.policy.kind = "Count" =>
                  /\ e.count < e.policy.a
                  /\ Delivered(p_got'[e.id], chan'[e.id]) = e.count
        /\ DeliverStep =>
              LET key == w_buf[2]
                  e == subscribes[key]
              IN e.policy.kind = "Count" =>
                  /\ Delivered(p_got'[e.id], chan'[e.id]) = Delivered(p_got[e.id], chan[e.id]) + 1
                  /\ IF e.count + 1 = e.policy.a
                       THEN /\ key \notin DOMAIN subscribes'
                            /\ Delivered(p_got'[e.id], chan'[e.id]) = e.policy.a
                       ELSE /\ key \in DOMAIN subscribes'
                            /\ subscribes'[key].id = e.id
        /\ \A id \in SubIds :
              ~sender_alive(id) =>
                  Delivered(p_got'[id], chan'[id]) = Delivered(p_got[id], chan[id]) ]_vars

\* a Count(2) subscription was kept at its first delivery, its caller has taken
\* that frame, and the worker is making the second delivery
C16_Witness ==
    /\ w_pc = "send"
    /\ subscribes[w_buf[2]].policy = Count(2)
    /\ subscribes[w_buf[2]].count = 1
    /\ p_got[subscribes[w_buf[2]].id] = 1

\* the subscription under the key of the frame in buf, being delivered to
Addressee == subscribes[w_buf[2]]

\* byte 4 of the stripped frame buf[1..] being delivered
PayloadByte4 == SubSeq(w_buf, 2, BufLen)[5]

\* payloads of length 0..4 over the sampled bytes
ShortPayloads == UNION {[1..n -> {0, 9}] : n \in 0..4}

\* C17 (SpecificIsOn(4,0) over deliveries), as claimed: the subscription stays
\* registered at a delivery whose payload[4] is 0 and is removed at a delivery
\* whose payload[4] is not 0.
C17_StaysWhileZero ==
    [][ (DeliverStep /\ Addressee.policy = SpecificIsOn(4, 0) /\ rx_alive[Addressee.id]) =>
            IF PayloadByte4 = 0
              THEN w_buf[2] \in DOMAIN subscribes'
              ELSE w_buf[2] \notin DOMAIN subscribes' ]_vars

\* C17, amended: a subscription with SpecificIsOn(4,0) whose receiver is open
\* stays registered (with its count raised) at every delivery whose payload[4]
\* is not 0 and is removed at the first delivery whose payload[4] is 0; on a
\* payload of length <= 4 need_dispose says dispose.
C17_DisposedOnZero ==
    [][ /\ (DeliverStep /\ Addressee.policy = SpecificIsOn(4, 0) /\ rx_alive[Addressee.id]) =>
              IF PayloadByte4 = 0
                THEN w_buf[2] \notin DOMAIN subscribes'
                ELSE /\ w_buf[2] \in DOMAIN subscribes'
                     /\ subscribes'[w_buf[2]] = [Addressee EXCEPT !.count = @ + 1]
        /\ \A p \in ShortPayloads : \A c \in 1..2 :
              need_dispose(SpecificIsOn(4, 0), Response(p), c) ]_vars

\* a SpecificIsOn(4,0) subscription was kept at a delivery with payload[4] = 9
\* and the worker is delivering it a frame with payload[4] = 0
C17_Witness ==
    /\ w_pc = "send"
    /\ Addressee.policy = SpecificIsOn(4, 0)
    /\ Addressee.count = 1
    /\ rx_alive[Addressee.id]
    /\ PayloadByte4 = 0

-----------------------------------------------------------------------------
(* Claim about need_dispose, checked under SpecDispose *)

\* C18 (dispose decision table): on a Response with payload p, need_dispose is
\* true for SpecificIsOn(offset, value) iff p[offset] = value, true for
\* SpecificNotOn(offset, value) iff p[offset] # value, true for both when the
\* length of p is <= offset, and false for Never; on DeviceDisconnect it is true
\* under every policy.
C18_DecisionTable ==
    d_pc = "decided" =>
        IF d_msg.tag = "DeviceDisconnect" THEN d_res = TRUE
        ELSE LET p == d_msg.data
                 offset == d_policy.a
                 value == d_policy.b
             IN CASE d_policy.kind = "Never" -> d_res = FALSE
                  [] d_policy.kind = "SpecificIsOn" ->
                        IF Len(p) <= offset THEN d_res = TRUE
                        ELSE d_res = (p[offset + 1] = value)
                  [] d_policy.kind = "SpecificNotOn" ->
                        IF Len(p) <= offset THEN d_res = TRUE
                        ELSE d_res = (p[offset + 1] # value)
                  [] OTHER -> TRUE

\* need_dispose said dispose for SpecificNotOn on a payload too short for its offset
C18_Witness ==
    /\ d_pc = "decided"
    /\ d_policy.kind = "SpecificNotOn"
    /\ d_msg.tag = "Response"
    /\ d_msg.data # <<>>
    /\ Len(d_msg.data) <= d_policy.a
    /\ d_res = TRUE

-----------------------------------------------------------------------------
(* Claims about the registry keys, checked under Spec *)

\* the item try_recv returns registers a subscription
Registers(mes) == mes.kind \in {"SendPacketAndSubscribe", "Subscribe"}

\* the key an item registers its subscription under
RegistryKey(mes) == IF mes.kind = "Subscribe" THEN mes.cmd ELSE correlation_key(mes.data)

\* C19 (registry keying): no subscription is under two keys; when the worker
\* handles an item that registers a subscription under an occupied key, the new
\* subscription takes the key and the previous occupant is held by the worker no
\* more, without any message put in its reply queue and without a
\* send_no_check on it, in that step or later; and a delivery changes the reply
\* queue of the subscription registered under the frame's key and no other.
C19_RegistryKeying ==
    [][ /\ \A j, k \in DOMAIN subscribes' : subscribes'[j].id = subscribes'[k].id => j = k
        /\ (ConsumeStep /\ Registers(Head(queue)) /\ RegistryKey(Head(queue)) \in DOMAIN subscribes) =>
              LET mes == Head(queue)
                  key == RegistryKey(mes)
                  old == subscribes[key]
              IN /\ chan'[old.id] = chan[old.id]
                 /\ dc_sent' = dc_sent
                 /\ old.id \notin fan_ids'
                 /\ w_cur'.id # old.id
                 /\ \A s \in w_pending' : s.id # old.id
                 /\ \A k \in DOMAIN subscribes' : subscribes'[k].id # old.id
                 /\ \/ key \in DOMAIN subscribes' /\ subscribes'[key] = mes.sub
                    \/ mes.sub.id \in fan_ids' /\ subscribes' = EmptyMap
        /\ \A id \in SubIds :
              (~sender_alive(id) /\ next_sub > id) =>
                  /\ Len(chan'[id]) <= Len(chan[id])
                  /\ dc_sent'[id] = dc_sent[id]
                  /\ ~in_registry(id)'
        /\ DeliverStep =>
              \A id \in SubIds : id # Addressee.id => chan'[id] = chan[id] ]_vars

\* the first subscription was displaced by the second under key 0xE2 with its
\* receiver open; the only frame read went to the second, none to the first
C19_Witness ==
    /\ processed = 2
    /\ next_sub = 3
    /\ fan_cause = "none"
    /\ frames_read = 1
    /\ ~in_registry(1)
    /\ 226 \in DOMAIN subscribes
    /\ subscribes[226].id = 2
    /\ rx_alive[1]
    /\ chan[1] = <<>>
    /\ chan[2] # <<>>

\* C20 (a displaced caller is not woken), as claimed: when the worker registers
\* a subscription under a key whose occupant's caller is waiting in
\* receive_packet on an empty reply queue, that caller goes on waiting: after the
\* step, as before it, its receive_packet can return only the timeout error.
C20_DisplacedKeepsWaiting ==
    [][ (/\ queue # <<>>
         /\ ConsumeStep
         /\ Registers(Head(queue))
         /\ RegistryKey(Head(queue)) \in DOMAIN subscribes
         /\ rx_alive[subscribes[RegistryKey(Head(queue))].id]
         /\ chan[subscribes[RegistryKey(Head(queue))].id] = <<>>) =>
            \A old \in SubIds :
                old = subscribes[RegistryKey(Head(queue))].id =>
                    /\ receive_packet(old) = {Timeout("Wait response timeout")}
                    /\ receive_packet(old)' = {Timeout("Wait response timeout")} ]_vars

-----------------------------------------------------------------------------
(* Claims about abandoned receivers (under Spec) and the order of deliveries (under SpecPolicy) *)

\* the key subscription id is registered under
KeyOf(id) == CHOOSE k \in DOMAIN subscribes : subscribes[k].id = id

\* the caller drops the receiver of subscription id in this step
ReceiverDropped(id) == rx_alive[id] /\ ~rx_alive'[id]

\* handle_hid_error begins in this step and subscription id is among the drained
FannedOut(id) ==
    /\ w_pc \in {"drain", "read"}
    /\ fan_cause' \in {"read", "write"}
    /\ subscribes' = EmptyMap
    /\ id \in fan_ids'

\* C21 (caller cancellation): the step in which a caller drops its reply
\* receiver changes nothing of the worker: the registry, the worker's position
\* and its buffer stay. While the worker runs, a registered subscription whose
\* receiver is gone leaves the registry only in a delivery of a frame under its
\* key, in the start of a disconnect fan-out, or when the worker handles an item
\* that registers under its key or an UnSubscribe of its key; and the delivery
\* of a frame under its key does remove it whatever its policy, Never included,
\* and puts nothing in its reply queue.
C21_Cancellation ==
    [][ \A id \in SubIds :
          /\ ReceiverDropped(id) =>
                (subscribes' = subscribes /\ w_pc' = w_pc /\ w_buf' = w_buf /\ queue' = queue)
          /\ (id < next_sub /\ ~rx_alive[id] /\ in_registry(id) /\ w_pc' # "done") =>
                /\ ~in_registry(id)' =>
                      \/ DeliverStep /\ w_buf[2] = KeyOf(id)
                      \/ FannedOut(id)
                      \/ /\ ConsumeStep
                         /\ Registers(Head(queue))
                         /\ RegistryKey(Head(queue)) = KeyOf(id)
                      \/ /\ ConsumeStep
                         /\ Head(queue).kind = "UnSubscribe"
                         /\ Head(queue).cmd = KeyOf(id)
                /\ (DeliverStep /\ w_buf[2] = KeyOf(id)) =>
                      (~in_registry(id)' /\ chan'[id] = <<>>) ]_vars

\* a Never subscription whose caller has dropped the receiver is still
\* registered and the worker is about to deliver a frame under its key
C21_Witness ==
    /\ w_pc = "send"
    /\ Addressee.policy = Never
    /\ ~rx_alive[Addressee.id]
    /\ Addressee.id < next_sub

\* connection.read_timeout returns a frame in this step
ReadStep == frames_read' = frames_read + 1

-----------------------------------------------------------------------------
(* Claims about the card-list decoder, checked under SpecCard *)

\* the payload handed to the decoder is the whole card list, not cut short
WholeList == k_data = CardPayload(k_entries)

\* the cards of the entries, in the order of the list
ListedCards == [i \in 1..Len(k_entries) |-> k_entries[i].card]

\* C23 (Type A card decoding): with baud-rate-type 0, a payload made of the tag
\* count N and N complete Type A entries (target number, ATQA high byte, ATQA low
\* byte, SAK, uid length L, L uid bytes) decodes to the N Iso14443a records of the
\* entries in their order, each with the ATQA read big-endian, the SAK and the L
\* uid bytes; and 01 01 00 04 08 04 AA BB CC DD decodes to the single record
\* {uid = AA BB CC DD, sak = 0x08, atqa = 0x0004}.
C23_TypeADecoding ==
    /\ (/\ k_pc = "parsed"
        /\ k_brty = 0
        /\ WholeList
        /\ \A i \in 1..Len(k_entries) : k_entries[i].kind = "A") =>
            k_res = Cards(ListedCards)
    /\ parse_in_list_passive_target(CardExample, 0) =
            Cards(<<Iso14443a(<<170, 187, 204, 221>>, 8, 4)>>)

\* a list of two Type A cards, the second with a 7-byte uid and an ATQA whose
\* high byte is not 0, was decoded to two records
C23_Witness ==
    /\ k_pc = "parsed"
    /\ k_brty = 0
    /\ WholeList
    /\ Len(k_entries) = 2
    /\ k_entries[1].kind = "A"
    /\ k_entries[2].kind = "A"
    /\ Len(k_entries[2].card.uid) = 7
    /\ k_res.tag = "Ok"
    /\ Len(k_res.tags) = 2
    /\ k_res.tags[2].aqta = 17408

\* C24 (FeliCa card decoding), as claimed: with baud-rate-type 1 or 2 an entry
\* whose total-length byte is L >= 18 is decoded by consuming exactly L bytes
\* from the length byte on, so a list of such entries decodes to the records of
\* its entries in order, each read where the previous one's L bytes end; a list
\* with an entry of L < 18 fails.
C24_FelicaConsumesLength ==
    (/\ k_pc = "parsed"
     /\ k_brty \in {1, 2}
     /\ WholeList
     /\ \A i \in 1..Len(k_entries) : k_entries[i].kind = "F") =>
        /\ IF \A i \in 1..Len(k_entries) : k_entries[i].len >= 18
             THEN k_res = Cards(ListedCards)
             ELSE k_res.tag # "Ok"
        /\ (Len(k_entries) >= 1 /\ k_entries[1].len >= 18) =>
              felica(k_data, 2).pos = 2 + k_entries[1].len

\* the list is one the decoder reads to its end under the baud-rate-type given:
\* Type A entries under 0, FeliCa entries of even length >= 18 under 1 or 2
WellFormedList ==
    \/ k_brty = 0 /\ \A i \in 1..Len(k_entries) : k_entries[i].kind = "A"
    \/ /\ k_brty \in {1, 2}
       /\ \A i \in 1..Len(k_entries) :
             k_entries[i].kind = "F" /\ k_entries[i].len >= 18 /\ k_entries[i].len % 2 = 0

\* C25 (card decoder error kind), as claimed: when the payload of a well-formed
\* list ends before the decoder has read all of it (at the tag count, a target
\* number, ATQA, SAK, the uid length, the uid, a FeliCa field or a system code),
\* the decoder returns the error kind Protocol, with no list.
C25_TruncationIsProtocolError ==
    (k_pc = "parsed" /\ WellFormedList /\ ~WholeList) =>
        (k_res.tag = "Protocol" /\ k_res.tags = <<>>)

-----------------------------------------------------------------------------
(* Claims about the firmware gate and the correlation key, checked under SpecGate *)

\* the device's firmware timestamp is known to the HinataDevice and is too old
TooOld(timestamp) == timestamp > 0 /\ timestamp < MinTimestamp

\* the item a completing submission has put in the outbound queue
Submitted == queue'[Len(queue')]

\* C26 (firmware gating): once the firmware timestamp the device reported is
\* below 2025051301, every call of get_chip_id and get_firmware_commit_hash that
\* has returned NotSupport; no request of sub-command 0xE6 or 0xE5
\* is submitted to the worker, in that call or a later one; and the cached chip
\* id and commit hash do not change: they are None as after build.
C26_FirmwareGate ==
    [][ /\ (g_pc' = "done" /\ TooOld(firmware_timestamp')) =>
              g_result' = NotSupport("Firmware version too old")
        /\ (SubmitStep /\ Submitted.data[2] \in {ChipIdCommand, CommitHashCommand}) =>
              (~TooOld(firmware_timestamp) /\ firmware_timestamp > 0)
        /\ TooOld(firmware_timestamp') =>
              /\ g_pc' # "value"
              /\ chip_id' = None
              /\ firmware_commit_hash' = None
        /\ (chip_id' # chip_id \/ firmware_commit_hash' # firmware_commit_hash) =>
              ~TooOld(firmware_timestamp) ]_vars

\* the device answered the timestamp request of get_chip_id with 2025051300 and
\* the call has returned NotSupport with that one request submitted
C26_Witness ==
    /\ g_pc = "done"
    /\ g_fn = ChipIdCommand
    /\ g_result.tag = "NotSupport"
    /\ firmware_timestamp = 2025051300
    /\ submitted = 1
    /\ processed = 1
    /\ hw_out = <<1, 1>>

\* C27 (correlation key of SendPacketAndSubscribe): when the worker handles such
\* an item its subscription is in the registry before the write is attempted,
\* under the key byte[1] of the data, or 50 when that byte is 1: after a write
\* that succeeded it is registered under that key and no other, and after a
\* write that failed it is among the subscriptions the fan-out drained. Key 1 is
\* never occupied, so a frame whose byte at offset 1 is 1 is delivered to nobody,
\* and a frame whose byte at offset 1 is 50 read while the subscription of a
\* sub-command 1 request is registered is delivered to that subscription.
C27_CorrelationKey ==
    [][ /\ (ConsumeStep /\ Head(queue).kind = "SendPacketAndSubscribe") =>
              LET mes == Head(queue)
                  key == IF mes.data[2] = 1 THEN 50 ELSE mes.data[2]
              IN \/ /\ fan_cause' = fan_cause
                    /\ fan_ids' = fan_ids
                    /\ key \in DOMAIN subscribes'
                    /\ subscribes'[key] = mes.sub
                    /\ \A k \in DOMAIN subscribes' \ {key} : subscribes'[k].id # mes.sub.id
                 \/ /\ fan_cause' = "write"
                    /\ mes.sub.id \in fan_ids'
                    /\ subscribes' = EmptyMap
        /\ 1 \notin DOMAIN subscribes'
        /\ (ReadStep /\ w_buf'[2] = 1) => (w_pc' = "drain" /\ chan' = chan)
        /\ (ReadStep /\ w_buf'[2] = 50 /\ r_cmd = 1 /\ in_registry(r_sub)) =>
              (w_pc' = "send" /\ subscribes'[50].id = r_sub)
        /\ (DeliverStep /\ r_cmd = 1 /\ Addressee.id = r_sub /\ rx_alive[r_sub]) =>
              (w_buf[2] = 50 /\ Head(chan'[r_sub]).data[1] = 50) ]_vars

\* the request of sub-command 1 was written and is registered under key 50; a
\* frame whose byte at offset 1 is 1 has been read and nothing was delivered
C27_Witness ==
    /\ hw_out = <<1, 1>>
    /\ 50 \in DOMAIN subscribes
    /\ subscribes[50].id = r_sub
    /\ r_cmd = 1
    /\ r_pc = "wait_simple"
    /\ frames_read = 1
    /\ w_buf[2] = 1
    /\ w_pc = "drain"
    /\ chan[r_sub] = <<>>

-----------------------------------------------------------------------------
(* Claims about the read phase and the write failure, checked under Spec *)

\* C28 (inbound demultiplexing): a read that returns a frame leads to a delivery
\* exactly when a subscription is registered under the byte at offset 1 of the
\* frame; otherwise the frame is dropped: the worker is back at the drain with
\* the registry and every reply queue as they were. The delivery changes the
\* reply queue of that one subscription only, and every entry under another key
\* stays in the registry as it was, its count included. A read that returns
\* length 0 changes neither the registry nor a reply queue nor the buffer.
C28_Demultiplexing ==
    [][ /\ ReadStep =>
              /\ subscribes' = subscribes
              /\ chan' = chan
              /\ w_pc' = IF w_buf'[2] \in DOMAIN subscribes THEN "send" ELSE "drain"
        /\ DeliverStep =>
              /\ \A id \in SubIds : id # Addressee.id => chan'[id] = chan[id]
              /\ Len(chan'[Addressee.id]) <= Len(chan[Addressee.id]) + 1
              /\ DOMAIN subscribes' \ {w_buf[2]} = DOMAIN subscribes \ {w_buf[2]}
              /\ \A k \in DOMAIN subscribes \ {w_buf[2]} : subscribes'[k] = subscribes[k]
        /\ (w_pc = "read" /\ w_pc' = "drain" /\ ~ReadStep) =>
              (subscribes' = subscribes /\ chan' = chan /\ w_buf' = w_buf) ]_vars

\* subscriptions are registered under the keys 50 and 0xE2; a frame under 0xE2
\* has been delivered to the one registered there and the other has got nothing
C28_Witness ==
    /\ w_pc = "drain"
    /\ frames_read = 1
    /\ DOMAIN subscribes = {50, 226}
    /\ subscribes[226].count = 1
    /\ subscribes[50].count = 0
    /\ Len(chan[subscribes[226].id]) = 1
    /\ chan[subscribes[50].id] = <<>>
    /\ rx_alive[subscribes[50].id]

\* the buffer as io_loop creates it: [0; 64]
ZeroBuf == [i \in 1..BufLen |-> 0]

\* C29 (delivered payload content), as claimed: the payload of a delivery is
\* made of the bytes of the frame just read, from offset 1 on, and of nothing an
\* earlier read has left in the buffer: it is what buf[1..] holds when that
\* frame is read into the buffer as io_loop created it.
C29_PayloadOfThisFrame ==
    [][ (DeliverStep /\ rx_alive[Addressee.id]) =>
            \E frame \in InFrames :
                chan'[Addressee.id][Len(chan'[Addressee.id])] =
                    Response(SubSeq(filled(ZeroBuf, frame), 2, BufLen)) ]_vars

\* connection.write fails in this step with a subscription in the registry: the
\* item has data to write, the registry would not be empty after its match arm,
\* and it is empty after the step
WriteFails ==
    /\ ConsumeStep
    /\ Head(queue).kind \in {"SendPacket", "SendPacketAndSubscribe"}
    /\ Head(queue).kind = "SendPacket" => DOMAIN subscribes # {}
    /\ subscribes' = EmptyMap

\* the subscriptions in the registry when the write of the item is attempted
AtWrite ==
    LET mes == Head(queue)
        key == IF mes.data[2] = 1 THEN 50 ELSE mes.data[2]
    IN IF mes.kind = "SendPacket" THEN {subscribes[k] : k \in DOMAIN subscribes}
       ELSE {subscribes[k] : k \in DOMAIN subscribes \ {key}} \cup {mes.sub}

\* C30 (write failure in the drain phase): when the write of a SendPacket or
\* SendPacketAndSubscribe item fails with subscriptions registered, the registry
\* is emptied and handle_hid_error is on its way through exactly the
\* subscriptions that were registered, the one the failing item has just
\* registered included; each send_no_check of the fan-out puts DeviceDisconnect
\* in the reply queue of a subscription whose receiver exists, and for a
\* subscription that had no delivery yet, such as the one just registered, it is
\* the only message there, so its receive_packet returns Disconnected (or the
\* timeout, if the deadline has passed), never Ok; when the fan-out ends every
\* drained subscription has had its send_no_check and the worker is at the poll
\* of the outbound queue again, whose items the fan-out has left in place.
C30_WriteFailure ==
    [][ /\ WriteFails =>
              /\ w_pc' = "fanout"
              /\ fan_cause' = "write"
              /\ {w_cur'} \cup w_pending' = AtWrite
              /\ fan_ids' = {sub.id : sub \in AtWrite}
              /\ Head(queue).kind = "SendPacketAndSubscribe" => Head(queue).sub.id \in fan_ids'
              /\ queue' = Tail(queue)
              /\ chan' = chan
        /\ \A sub \in ({w_cur} \cup w_pending) \ {NoSub} : sub.count = 0 => chan[sub.id] = <<>>
        /\ \A id \in SubIds :
              (w_pc = "fanout" /\ w_cur.id = id /\ dc_sent'[id] = dc_sent[id] + 1 /\ rx_alive[id]) =>
                  /\ chan'[id] = Append(chan[id], DeviceDisconnect)
                  /\ w_cur.count = 0 =>
                        receive_packet(id)' = {Disconnected("Device disconnected"),
                                               Timeout("Wait response timeout")}
        /\ w_pc = "fanout" =>
              /\ subscribes' = EmptyMap
              /\ processed' = processed
              /\ Len(queue') >= Len(queue)
              /\ SubSeq(queue', 1, Len(queue)) = queue
        /\ (FanoutEnds /\ fan_cause = "write") =>
              /\ w_pc' = "drain"
              /\ \A id \in fan_ids : dc_sent'[id] = 1 ]_vars

\* the write of the first item, a SendPacketAndSubscribe, failed; its own
\* subscription was drained and has DeviceDisconnect as its only message; the
\* fan-out has ended and the worker is at the poll with the next item waiting
C30_Witness ==
    /\ w_pc = "drain"
    /\ processed = 1
    /\ fan_cause = "write"
    /\ fan_ids = {1}
    /\ dc_sent[1] = 1
    /\ rx_alive[1]
    /\ chan[1] = <<DeviceDisconnect>>
    /\ subscribes = EmptyMap
    /\ queue # <<>>

-----------------------------------------------------------------------------
(* Claims about the lifetime of the chip-wrapped subscription, checked under SpecReq *)

\* the chip LEN byte of a stripped frame: offset 4, behind the key and 00 00 FF
ChipLen(data) == data[5]

\* the payloads of the Response messages waiting in the reply queue of id
Waiting(id) ==
    LET q == chan[id]
        F[i \in 0..Len(q)] ==
            IF i = 0 THEN <<>>
            ELSE IF q[i].tag = "Response" THEN Append(F[i - 1], q[i].data) ELSE F[i - 1]
    IN F[Len(q)]

\* every stripped frame the subscription of the request has been handed so far,
\* oldest first: those the request has taken, then those waiting in its queue
Handed == IF r_sub \in SubIds THEN r_got \o Waiting(r_sub) ELSE <<>>

\* the request begins in this step
RequestBegins == r_pc # "wait_ack" /\ r_pc' = "wait_ack"

\* C31 (chip-wrapped subscription lifetime): a chip-wrapped request is sent as
\* [1, 0xE2] followed by the encoded packet and registered under key 0xE2 with
\* SpecificNotOn(4, 0); the delivery of a frame whose stripped byte 4 is 0 (the
\* ACK) leaves the subscriber registered, and the delivery of a frame whose chip
\* LEN byte is not 0 removes it; so of the frames a subscriber is handed only the
\* last can have a LEN byte other than 0: the ACK, then one response frame.
C31_ChipSubscriptionLifetime ==
    /\ [](\A i \in 1..(Len(Handed) - 1) : ChipLen(Handed[i]) = 0)
    /\ [][  /\ RequestBegins =>
                 \E p \in ReqPayloads :
                    queue' = Append(queue,
                        SendPacketAndSubscribe(
                            <<1, 226>> \o to_bytes(Pn532Packet(HostToPn532, r_cmd', p)),
                            Subscription(r_sub', SpecificNotOn(4, 0))))
            /\ (w_pc = "drain" /\ processed' = processed + 1 /\ w_pc' = "drain") =>
                 /\ hw_out' = Head(queue).data
                 /\ DOMAIN subscribes' = {226}
                 /\ subscribes'[226] = Head(queue).sub
            /\ (w_pc = "send" /\ w_pc' # "send" /\ rx_alive[subscribes[w_buf[2]].id]) =>
                 LET id == subscribes[w_buf[2]].id
                     data == SubSeq(w_buf, 2, BufLen)
                 IN /\ w_buf[2] = 226
                    /\ chan'[id] = Append(chan[id], Response(data))
                    /\ ChipLen(data) = 0 =>
                          (226 \in DOMAIN subscribes' /\ subscribes'[226].id = id)
                    /\ ChipLen(data) # 0 => subscribes' = EmptyMap ]_vars

\* the request has taken the ACK, and the response frame that came next waits in
\* its reply queue with the subscriber out of the registry
C31_Witness ==
    /\ r_pc = "wait_res"
    /\ Len(Handed) = 2
    /\ ~NotAck(Handed[1])
    /\ ChipLen(Handed[2]) # 0
    /\ WellFormedResponse(Handed[2], r_cmd)
    /\ subscribes = EmptyMap

-----------------------------------------------------------------------------
(* Claims about the drain phase, checked under Spec *)

\* the worker handles the item at the head of the outbound queue in this step
DrainStep == w_pc = "drain" /\ processed' = processed + 1

\* the registry differs from the one before the step at most under key
OnlyKeyChanged(key) ==
    /\ DOMAIN subscribes' \ {key} = DOMAIN subscribes \ {key}
    /\ \A k \in DOMAIN subscribes \ {key} : subscribes'[k] = subscribes[k]

\* the step calls neither connection.write nor handle_hid_error
NoWrite ==
    /\ hw_out' = hw_out
    /\ w_pc' = "drain"
    /\ UNCHANGED <<fan_ids, fan_cause, w_cur, w_pending, chan, dc_sent, w_buf>>

-----------------------------------------------------------------------------
(* Claims about the encoder, checked under SpecCodec *)

\* the plain sum of bytes[lo..hi], by halves
RECURSIVE RangeSum(_, _, _)
RangeSum(bytes, lo, hi) ==
    IF lo > hi THEN 0
    ELSE IF lo = hi THEN bytes[lo]
    ELSE LET mid == (lo + hi) \div 2
         IN RangeSum(bytes, lo, mid) + RangeSum(bytes, mid + 1, hi)

\* the plain sum of the bytes of a sequence
ByteSum(bytes) == RangeSum(bytes, 1, Len(bytes))

\* C33 (encode wire format): for every direction, opcode and payload of length
\* 0..253, to_bytes yields 00 00 FF, LEN = len(payload) + 2, LCS with
\* (LEN + LCS) mod 256 = 0, TFI (0xD4 from the host, 0xD5 from the chip), the wire
\* command (the opcode, plus 1 iff the direction is chip to host), the payload,
\* DCS with (TFI + wire command + sum of payload + DCS) mod 256 = 0, and a final
\* 00; the total length is len(payload) + 9.
C33_EncodeFormat ==
    c_pc = "encoded" =>
        LET n == Len(c_packet.payload)
            wire == c_wire
        IN /\ n \in 0..MaxEncodable
           /\ Len(wire) = n + 9
           /\ SubSeq(wire, 1, 3) = <<0, 0, 255>>
           /\ wire[4] = n + 2
           /\ wire[5] \in Byte /\ (wire[4] + wire[5]) % 256 = 0
           /\ wire[6] = (IF c_packet.direction = HostToPn532 THEN 212 ELSE 213)
           /\ wire[7] = c_packet.command + (IF c_packet.direction = Pn532ToHost THEN 1 ELSE 0)
           /\ SubSeq(wire, 8, 7 + n) = c_packet.payload
           /\ wire[8 + n] \in Byte
           /\ (wire[6] + wire[7] + ByteSum(c_packet.payload) + wire[8 + n]) % 256 = 0
           /\ wire[9 + n] = 0

\* a chip-to-host packet with the 253-byte payload was encoded: LEN FF, LCS 01
C33_Witness ==
    /\ c_pc = "encoded"
    /\ c_packet.direction = Pn532ToHost
    /\ Len(c_packet.payload) = MaxEncodable
    /\ Len(c_wire) = MaxEncodable + 9
    /\ c_wire[4] = 255
    /\ c_wire[5] = 1

-----------------------------------------------------------------------------
(* Claims about the baud-rate-type of the card decoder, checked under SpecCard *)

\* C34 (unsupported card mode): for every baud-rate-type other than 0, 1 or 2
\* and every payload that declares at least one tag and contains its
\* target-number byte, decoding fails with the unsupported-mode failure
\* (Error::Protocol "Not Supported") and returns no record; the baud-rate-type is
\* examined only per tag, so a payload declaring 0 tags yields the empty list for
\* any baud-rate-type.
C34_UnsupportedMode ==
    k_pc = "parsed" =>
        /\ (k_brty \notin {0, 1, 2} /\ Len(k_data) >= 2 /\ k_data[1] >= 1) =>
              /\ k_res = CardError("Protocol", "Not Supported")
              /\ k_res.tags = <<>>
        /\ (Len(k_data) >= 1 /\ k_data[1] = 0) => k_res = Cards(<<>>)

\* a list of two well-formed Type A entries was decoded with baud-rate-type 255
\* and the decoder refused it
C34_Witness ==
    /\ k_pc = "parsed"
    /\ k_brty = 255
    /\ Len(k_entries) = 2
    /\ k_data = CardPayload(k_entries)
    /\ \A i \in 1..2 : k_entries[i].kind = "A"
    /\ k_res.tag = "Protocol"

-----------------------------------------------------------------------------
(* Claims about the frames a request is given, checked under SpecDevice *)

\* C35 (no cross-request delivery), as claimed: the payload a request returns
\* comes from a frame the device emitted in answer to that request, and a frame
\* of an earlier request with the same correlation key is never returned as, or
\* counted as the ACK or the response of, a later request. On a device that
\* answers each packet with its ACK and then the response to its command: the
\* first frame a request takes is an ACK, the second the well-formed response to
\* its own command, and a payload it returns is the chip's reply to its command.
C35_NoCrossDelivery ==
    /\ Len(r_got) >= 1 => ~NotAck(r_got[1])
    /\ Len(r_got) = 2 => WellFormedResponse(r_got[2], r_cmd)
    /\ r_result.tag = "Ok" => r_result.data = ReplyPayload(r_cmd)

-----------------------------------------------------------------------------
(* Claims about what a request leaves behind, checked under SpecBoth *)

\* some Sender of the reply channel of the request's subscription still exists
Residue == sender_alive(r_sub)

\* C36 (successful requests leave no residue): whenever a simple request or a
\* chip-wrapped request has returned successfully, the subscriber it registered
\* is no longer in the registry (nor anywhere else in the worker); for a
\* chip-wrapped request the response frame that decoded has LEN >= 2 at offset 4
\* of the stripped frame, which made SpecificNotOn(4, 0) dispose of it.
C36_NoResidue ==
    (r_pc = "done" /\ r_result.tag = "Ok") =>
        /\ ~in_registry(r_sub)
        /\ ~Residue
        /\ Len(r_got) = 2 => ChipLen(r_got[2]) >= 2

\* a chip-wrapped request, the second request of the task, has returned the
\* payload of its response: the registry is empty
C36_Witness ==
    /\ r_pc = "done"
    /\ r_result.tag = "Ok"
    /\ Len(r_got) = 2
    /\ r_sub = 2
    /\ ChipLen(r_got[2]) = 3
    /\ subscribes = EmptyMap

-----------------------------------------------------------------------------
(* Claims about the LEN byte of decoded frames, checked under SpecCodec *)

\* C37 (LEN below 2 is rejected), as claimed: for every byte sequence whose
\* declared LEN byte is 0 or 1 from_bytes returns an error, so the payload range
\* [7, 5 + LEN) it slices on success is never inverted, and every successfully
\* decoded packet has a payload of LEN - 2 bytes.
C37_LowLenRejected ==
    c_pc = "decoded" =>
        /\ (Len(c_wire) >= 4 /\ c_wire[4] < 2) => c_res.tag = "Err"
        /\ c_res.tag = "Ok" => Len(c_res.packet.payload) = c_wire[4] - 2

-----------------------------------------------------------------------------
(* Claims about the end of the worker, checked under SpecShutdown *)

\* io_loop returns in this step
WorkerExits == w_pc # "done" /\ w_pc' = "done"

\* C38 (worker shutdown): once every producer handle of the outbound queue has
\* been dropped the worker eventually terminates (the hardware read returning
\* within its timeout), and only after every item queued before the close has
\* been dequeued and handled; the subscribers still registered at the exit get no
\* DeviceDisconnect: the exit calls send_no_check on nobody and puts nothing in
\* a reply queue.
C38_WorkerShutdown ==
    /\ (~tx_alive) ~> (w_pc = "done")
    /\ [](w_pc = "done" => (~tx_alive /\ queue = <<>> /\ processed = submitted))
    /\ [][  /\ WorkerExits => (queue = <<>> /\ dc_sent' = dc_sent /\ chan' = chan)
            /\ w_pc = "done" => (dc_sent' = dc_sent /\ chan' = chan /\ w_pc' = "done") ]_vars

\* two requests were handled and the second timed out with no frame read and no
\* fan-out, so its subscription was registered when the worker exited after the
\* device was dropped; nobody was notified
C38_Witness ==
    /\ w_pc = "done"
    /\ ~tx_alive
    /\ processed = 2
    /\ frames_read = 0
    /\ fan_cause = "none"
    /\ r_result.tag = "Timeout"
    /\ \A id \in SubIds : dc_sent[id] = 0

-----------------------------------------------------------------------------
(* Claims about the cached firmware timestamp, checked under SpecGate *)

\* a call of get_chip_id or get_firmware_commit_hash begins in this step
CallBegins == g_pc \in {"idle", "done"} /\ g_pc' # g_pc

\* the timestamp request of a call has returned in this step
TimestampReturns == g_pc = "timestamp" /\ g_pc' # "timestamp"

\* the ten bytes raw[..10] are ASCII digits
TenDigits(raw) == Len(raw) >= 10 /\ \A i \in 1..10 : raw[i] \in Digits

\* C39 (firmware timestamp caching): once get_firmware_timestamp has returned a
\* value greater than 0 the cache keeps it, and every later call, those inside
\* get_chip_id and get_firmware_commit_hash included, answers with that value
\* and submits no request of sub-command 1; a failed call (a parsed value of 0
\* would do the same) leaves the cache unset, and a call that finds it unset
\* queries the device again.
C39_TimestampCache ==
    [][ /\ firmware_timestamp > 0 => firmware_timestamp' = firmware_timestamp
        /\ (SubmitStep /\ Submitted.data[2] = 1) => firmware_timestamp = 0
        /\ (CallBegins /\ firmware_timestamp > 0) =>
              /\ g_pc' \in {"done", "value"}
              /\ submitted' = submitted
              /\ (g_result' = NotSupport("Firmware version too old"))
                    <=> (firmware_timestamp < MinTimestamp)
        /\ (CallBegins /\ firmware_timestamp = 0) => g_pc' = "timestamp"
        /\ TimestampReturns =>
              /\ firmware_timestamp = 0
              /\ IF r_result.tag = "Ok" /\ TenDigits(r_result.data)
                   THEN /\ firmware_timestamp' = decimal(SubSeq(r_result.data, 1, 10))
                        /\ firmware_timestamp' > 0
                   ELSE /\ firmware_timestamp' = 0
                        /\ g_pc' = "done"
                        /\ g_result'.tag \in {"Timeout", "Disconnected", "Parse"} ]_vars

\* get_chip_id used both submissions of the run and cached the timestamp and the
\* chip id; the call of get_firmware_commit_hash that followed took the cached
\* timestamp and is about to request the hash
C39_Witness ==
    /\ g_fn = CommitHashCommand
    /\ g_pc = "value"
    /\ firmware_timestamp = MinTimestamp
    /\ chip_id # None
    /\ submitted = 2
    /\ processed = 2

=============================================================================
